---- MODULE Spec2Model ----
(***************************************************************************)
(* State-machine model of index.js: the daily scheduler (durable table     *)
(* `schedules`, the in-memory `schedules` object, the `scheduledJobs`      *)
(* registry and the node-cron jobs), the admin gate, the rule store, the   *)
(* allow-list of WhatsApp senders and the two inbound message handlers.    *)
(*                                                                         *)
(* Text that the program inspects (phone numbers, HH, MM, ids, triggers,   *)
(* message bodies that are matched) is a sequence of one-character         *)
(* strings; text that the program only passes on (the message of a         *)
(* schedule, the reply of a rule) is an opaque string.                     *)
(*                                                                         *)
(* Every sqlite3 call is asynchronous: the handler issues it and returns   *)
(* to the event loop, the statement takes effect on the table at some      *)
(* later moment, and its callback (or the code after `await`) runs later   *)
(* still. The database object is in parallel mode after initializeDatabase *)
(* (db.serialize(cb) only covers the CREATE TABLE statements), so pending  *)
(* statements of different handlers take effect in any order.              *)
(***************************************************************************)
EXTENDS Integers, Sequences, FiniteSets, TLC

VARIABLES
    ADMIN_CHAT_IDS,  \* index.js:17, the parsed admin list
    dbSchedules,     \* the durable table `schedules`, rows in rowid order
    schedules,       \* index.js:946, the in-memory object id -> schedule
    scheduledJobs,   \* index.js:1036, id -> cron job handle (0: no property)
    jobs,            \* every cron job object created so far, by handle
    startPc,         \* position of the startup load of schedules (index.js:655-660)
    loaded,          \* rows read by loadSchedulesFromDb, until its callback runs
    cmds,            \* the /schedule and /cancelschedule commands received, in order
    lastSend,        \* the latest message a cron callback handed to client.sendMessage
    dbRules,         \* the durable table `rules`, rows in rowid order
    rules,           \* index.js:635, the in-memory object trigger -> reply
    rulesPc,         \* position of the startup load of rules (index.js:642-645)
    rulesLoaded,     \* object built by loadRulesFromDB, until its callback runs
    ruleCmds,        \* the /addrule, /editrule and /deleterule commands received, in order
    tgReply,         \* the auto-reply to the latest Telegram text message ("" : none)
    probe,           \* the latest isAdmin(chatId) evaluation
    dbNumbers,       \* the durable table `authorized_numbers`, rows in rowid order
    authorizedNumbers, \* index.js:395, the in-memory allow-list (an array)
    numsPc,          \* position of the startup load of the allow-list (index.js:648-652)
    numsLoaded,      \* rows read by loadAuthorizedNumbersFromDb, until the await resumes
    numCmds,         \* the /addnumber and /removenumber commands received, in order
    inbox,           \* the inbound messages received on Telegram and WhatsApp, in order
    fires,           \* the runs of cron callbacks, step by step (index.js:1057-1073)
    sends,           \* the /send commands received, in order (index.js:666-704)
    boot,            \* initializeDatabase and what follows it (index.js:288-391)
    client,          \* index.js:26, the current Client instance (0: undefined)
    clients,         \* every Client instance created so far, by number
    isClientInitialized, \* index.js:27
    timers,          \* pending setTimeout callbacks that call initializeWhatsAppClient
    inits            \* the calls of initializeWhatsAppClient made so far, in order

schedVars == <<dbSchedules, schedules, scheduledJobs, jobs, startPc, loaded, cmds, lastSend>>

ruleVars == <<dbRules, rules, rulesPc, rulesLoaded, ruleCmds, tgReply>>

numVars == <<dbNumbers, authorizedNumbers, numsPc, numsLoaded, numCmds>>

sendVars == <<fires, sends>>

waVars == <<client, clients, isClientInitialized, timers, inits>>

vars == <<ADMIN_CHAT_IDS, probe, schedVars, ruleVars, numVars, inbox, sendVars, boot, waVars>>

\* what the scheduler's steps leave alone
notSched == <<ADMIN_CHAT_IDS, probe, ruleVars, numVars, inbox, sendVars, boot, waVars>>

\* what the rule store's steps leave alone
notRules == <<ADMIN_CHAT_IDS, probe, schedVars, numVars, inbox, sendVars, boot, waVars>>

\* what the allow-list's steps leave alone
notNums == <<ADMIN_CHAT_IDS, probe, schedVars, ruleVars, inbox, sendVars, boot, waVars>>

\* what the steps of a cron callback and of /send leave alone, lastSend apart
notOut == <<ADMIN_CHAT_IDS, probe, ruleVars, numVars, inbox, boot, waVars,
            dbSchedules, schedules, scheduledJobs, jobs, startPc, loaded, cmds>>

\* what the steps of an inbound message leave alone, the rule store and the inbox apart
notMsgs == <<ADMIN_CHAT_IDS, probe, schedVars, numVars, sendVars, boot, waVars>>

-----------------------------------------------------------------------------
(* Bounds of the model *)

\* number of /schedule and /cancelschedule commands received in one run
MaxCmds == 2

\* number of /addrule, /editrule and /deleterule commands received in one run
MaxRuleCmds == 2

\* number of rows the durable schedules table holds when the process starts
MaxInitRows == 2

\* number of /addnumber and /removenumber commands received in one run
MaxNumCmds == 2

\* number of inbound messages received in one run
MaxMsgs == 1

\* number of inbound messages received in one run of the message filters
MaxFilterMsgs == 2

\* number of cron callbacks that run in one run
MaxFires == 2

\* number of /send commands received in one run
MaxSends == 2

-----------------------------------------------------------------------------
(* Text helpers *)

Digits == {"0", "1", "2", "3", "4", "5", "6", "7", "8", "9"}

DigitVal == ("0" :> 0) @@ ("1" :> 1) @@ ("2" :> 2) @@ ("3" :> 3) @@ ("4" :> 4) @@
            ("5" :> 5) @@ ("6" :> 6) @@ ("7" :> 7) @@ ("8" :> 8) @@ ("9" :> 9)

DigitChar == <<"0", "1", "2", "3", "4", "5", "6", "7", "8", "9">>

\* value of a string of decimal digits (what SQLite's INTEGER affinity and
\* node-cron's number conversion make of "08")
RECURSIVE DecVal(_)
DecVal(s) == IF s = <<>> THEN 0
             ELSE 10 * DecVal(SubSeq(s, 1, Len(s) - 1)) + DigitVal[s[Len(s)]]

\* `${n}` for a number 0..99
DecStr(n) == IF n < 10 THEN <<DigitChar[n + 1]>>
             ELSE <<DigitChar[(n \div 10) + 1], DigitChar[(n % 10) + 1]>>

\* s.startsWith(c) for a one-character c
StartsWith(s, c) == Len(s) > 0 /\ s[1] = c

-----------------------------------------------------------------------------
(* JavaScript objects used as maps: own string keys enumerate with the      *)
(* array-index keys first, in ascending numeric order, then the other keys  *)
(* in insertion order. An object is the sequence of its [k, v] entries in   *)
(* enumeration order.                                                        *)

\* a canonical array index: decimal digits without a leading zero
IsArrayIndex(k) == /\ Len(k) > 0
                   /\ \A i \in 1..Len(k) : k[i] \in Digits
                   /\ (Len(k) > 1 => k[1] # "0")

ObjHas(o, k) == \E i \in 1..Len(o) : o[i].k = k

ObjIndex(o, k) == CHOOSE i \in 1..Len(o) : o[i].k = k

ObjGet(o, k) == o[ObjIndex(o, k)].v

ObjKeys(o) == [i \in 1..Len(o) |-> o[i].k]

\* o[k] = v
ObjSet(o, k, v) ==
    IF ObjHas(o, k)
    THEN [o EXCEPT ![ObjIndex(o, k)] = [k |-> k, v |-> v]]
    ELSE IF IsArrayIndex(k)
    THEN LET before == Cardinality({i \in 1..Len(o) :
                           IsArrayIndex(o[i].k) /\ DecVal(o[i].k) < DecVal(k)})
         IN  SubSeq(o, 1, before) \o <<[k |-> k, v |-> v]>> \o SubSeq(o, before + 1, Len(o))
    ELSE Append(o, [k |-> k, v |-> v])

\* delete o[k]
ObjDelete(o, k) == SelectSeq(o, LAMBDA e : e.k # k)

-----------------------------------------------------------------------------
(* Inputs of the scheduler commands *)

\* phone numbers as typed after /schedule and /cancelschedule (\d+)
Numbers == {<<"9", "8">>, <<"0", "9", "8">>}

\* HH and MM as typed (\d{2}):(\d{2})
Times == {[hour |-> <<"0", "8">>, minute |-> <<"0", "0">>],
          [hour |-> <<"2", "5">>, minute |-> <<"0", "0">>]}

\* the quoted message of /schedule
Msgs == {"m1", "m2"}

\* Telegram chats that send commands
ChatIds == {1, 2}

\* index.js:1094-1097 (and 1151-1154): default country code
NormalizeNumber(number) ==
    IF ~StartsWith(number, "+")
    THEN <<"9", "1">> \o (IF StartsWith(number, "0") THEN SubSeq(number, 2, Len(number)) ELSE number)
    ELSE number

\* index.js:1100: the id of /schedule
ScheduleId(number, hour, minute) == number \o <<"_">> \o hour \o <<":">> \o minute

\* an id built from the numeric value of HH and MM
CancelId_Unpadded(number, hour, minute) ==
    number \o <<"_">> \o DecStr(DecVal(hour)) \o <<":">> \o DecStr(DecVal(minute))

\* index.js:1156: the id of /cancelschedule
CancelId(number, hour, minute) == number \o <<"_">> \o hour \o <<":">> \o minute

SchedIds == {ScheduleId(NormalizeNumber(n), t.hour, t.minute) : n \in Numbers, t \in Times}

\* node-cron accepts `${minute} ${hour} * * *` only with minute 0..59 and hour 0..23;
\* cron.schedule throws on any other expression
ValidCron(hour, minute) == DecVal(hour) \in 0..23 /\ DecVal(minute) \in 0..59

-----------------------------------------------------------------------------
(* The durable table `schedules` (id TEXT PRIMARY KEY, hour and minute INTEGER) *)

DbHasSchedule(db, id) == \E i \in 1..Len(db) : db[i].id = id

\* INSERT OR REPLACE: a row with the same id is deleted, the new row gets a new rowid
saveScheduleToDb(db, id, schedule) ==
    Append(SelectSeq(db, LAMBDA r : r.id # id),
           [id |-> id, number |-> schedule.number, message |-> schedule.text,
            hour |-> DecVal(schedule.hour), minute |-> DecVal(schedule.minute)])

\* DELETE FROM schedules WHERE id = ?
removeScheduleFromDb(db, id) == SelectSeq(db, LAMBDA r : r.id # id)

\* SELECT * FROM schedules, rows.forEach(row => dbSchedules[row.id] = {...})
RECURSIVE loadSchedulesFromDb(_)
loadSchedulesFromDb(db) ==
    IF db = <<>> THEN <<>>
    ELSE LET r == db[Len(db)]
         IN  ObjSet(loadSchedulesFromDb(SubSeq(db, 1, Len(db) - 1)), r.id,
                    [number |-> r.number, text |-> r.message,
                     hour |-> DecStr(r.hour), minute |-> DecStr(r.minute)])

-----------------------------------------------------------------------------
(* Cron jobs *)

\* a job counts as live while node-cron will still call its callback
Live(j) == j.state = "started"

LiveJobs(id) == {h \in 1..Len(jobs) : jobs[h].id = id /\ Live(jobs[h])}

\* index.js:1054-1083. The pair <<jobs, scheduledJobs>> after createSchedule(id, sched):
\* cron.schedule throws on an invalid expression, the throw is caught and logged inside
createSchedule(js, sj, id, sched) ==
    IF ValidCron(sched.hour, sched.minute)
    THEN <<Append(js, [id |-> id, number |-> sched.number, text |-> sched.text, state |-> "started"]),
           [sj EXCEPT ![id] = Len(js) + 1]>>
    ELSE <<js, sj>>

\* initSchedules with the try/catch around the loop instead of inside it: the first
\* schedule that cannot be materialized ends the loop
RECURSIVE initSchedules_StopsAtFailure(_, _, _)
initSchedules_StopsAtFailure(js, sj, scheds) ==
    IF scheds = <<>> THEN <<js, sj>>
    ELSE IF ~ValidCron(scheds[1].v.hour, scheds[1].v.minute) THEN <<js, sj>>
    ELSE LET r == createSchedule(js, sj, scheds[1].k, scheds[1].v)
         IN  initSchedules_StopsAtFailure(r[1], r[2], Tail(scheds))

\* index.js:1039-1051: createSchedule for every key of `scheds`, in enumeration order
RECURSIVE initSchedules(_, _, _)
initSchedules(js, sj, scheds) ==
    IF scheds = <<>> THEN <<js, sj>>
    ELSE LET r == createSchedule(js, sj, scheds[1].k, scheds[1].v)
         IN  initSchedules(r[1], r[2], Tail(scheds))

-----------------------------------------------------------------------------
(* Initial states *)

InitRowOf(id, n, t) == [id |-> id, number |-> n, message |-> "m1",
                        hour |-> DecVal(t.hour), minute |-> DecVal(t.minute)]

InitRows == {InitRowOf(ScheduleId(NormalizeNumber(n), t.hour, t.minute), NormalizeNumber(n), t) :
                n \in Numbers, t \in Times}

\* tables a previous run can have left: no id twice
InitTables == {s \in UNION {[1..n -> InitRows] : n \in 0..MaxInitRows} :
                  \A i, j \in 1..Len(s) : s[i].id = s[j].id => i = j}

InitSched ==
    /\ dbSchedules \in InitTables
    /\ schedules = <<>>
    /\ scheduledJobs = [id \in SchedIds |-> 0]
    /\ jobs = <<>>
    /\ startPc = "db"
    /\ loaded = <<>>
    /\ cmds = <<>>
    /\ lastSend = [to |-> <<>>, text |-> ""]

-----------------------------------------------------------------------------
(* Startup: setTimeout(async () => { schedules = await loadSchedulesFromDb(); initSchedules() }, 1000) *)

\* db.all takes effect: the rows are read (or the read fails and {} is resolved)
StartupLoad ==
    /\ startPc = "db"
    /\ \E ok \in BOOLEAN :
         loaded' = IF ok THEN loadSchedulesFromDb(dbSchedules) ELSE <<>>
    /\ startPc' = "cb"
    /\ UNCHANGED <<notSched, dbSchedules, schedules, scheduledJobs, jobs, cmds, lastSend>>

\* the code after the await: schedules = ...; initSchedules()
StartupInit ==
    /\ startPc = "cb"
    /\ schedules' = loaded
    /\ LET r == initSchedules(jobs, scheduledJobs, loaded)
       IN  jobs' = r[1] /\ scheduledJobs' = r[2]
    /\ loaded' = <<>>
    /\ startPc' = "done"
    /\ UNCHANGED <<notSched, dbSchedules, cmds, lastSend>>

-----------------------------------------------------------------------------
(* /schedule <number> "message" HH:MM   (index.js:1087-1126) *)

\* the handler up to `await saveScheduleToDb`: the old job is stopped and forgotten,
\* the INSERT OR REPLACE is issued
ScheduleStart(chatId, rawNumber, text, hour, minute) ==
    /\ Len(cmds) < MaxCmds
    /\ LET number == NormalizeNumber(rawNumber)
           id == ScheduleId(number, hour, minute)
           h == scheduledJobs[id]
       IN  /\ jobs' = IF h # 0 THEN [jobs EXCEPT ![h].state = "stopped"] ELSE jobs
           /\ scheduledJobs' = [scheduledJobs EXCEPT ![id] = 0]
           /\ cmds' = Append(cmds, [kind |-> "schedule", chatId |-> chatId, id |-> id,
                                    number |-> number, text |-> text, hour |-> hour,
                                    minute |-> minute, pc |-> "db", res |-> FALSE,
                                    reply |-> "none", at |-> 0])
    /\ UNCHANGED <<notSched, dbSchedules, schedules, startPc, loaded, lastSend>>

\* the INSERT OR REPLACE takes effect or fails
ScheduleDb(i) ==
    /\ cmds[i].kind = "schedule" /\ cmds[i].pc = "db"
    /\ \E ok \in BOOLEAN :
         /\ dbSchedules' = IF ok THEN saveScheduleToDb(dbSchedules, cmds[i].id, cmds[i])
                           ELSE dbSchedules
         /\ cmds' = [cmds EXCEPT ![i].pc = "cb", ![i].res = ok]
    /\ UNCHANGED <<notSched, schedules, scheduledJobs, jobs, startPc, loaded, lastSend>>

\* the code after the await without the `if (success)` test
ScheduleDone_IgnoresFailure(i) ==
    /\ cmds[i].kind = "schedule" /\ cmds[i].pc = "cb"
    /\ LET c == cmds[i]
           scheduleData == [number |-> c.number, text |-> c.text, hour |-> c.hour, minute |-> c.minute]
       IN  /\ schedules' = ObjSet(schedules, c.id, scheduleData)
           /\ LET r == createSchedule(jobs, scheduledJobs, c.id, scheduleData)
              IN  jobs' = r[1] /\ scheduledJobs' = r[2]
           /\ cmds' = [cmds EXCEPT ![i].pc = "done", ![i].at = Len(cmds),
                                   ![i].reply = IF c.res THEN "scheduled" ELSE "savefailed"]
    /\ UNCHANGED <<notSched, dbSchedules, startPc, loaded, lastSend>>

\* the code after the await (index.js:1112-1125)
ScheduleDone(i) ==
    /\ cmds[i].kind = "schedule" /\ cmds[i].pc = "cb"
    /\ LET c == cmds[i]
           scheduleData == [number |-> c.number, text |-> c.text, hour |-> c.hour, minute |-> c.minute]
       IN  IF c.res
           THEN /\ schedules' = ObjSet(schedules, c.id, scheduleData)
                /\ LET r == createSchedule(jobs, scheduledJobs, c.id, scheduleData)
                   IN  jobs' = r[1] /\ scheduledJobs' = r[2]
                /\ cmds' = [cmds EXCEPT ![i].pc = "done", ![i].reply = "scheduled", ![i].at = Len(cmds)]
           ELSE /\ cmds' = [cmds EXCEPT ![i].pc = "done", ![i].reply = "savefailed", ![i].at = Len(cmds)]
                /\ UNCHANGED <<schedules, jobs, scheduledJobs>>
    /\ UNCHANGED <<notSched, dbSchedules, startPc, loaded, lastSend>>

-----------------------------------------------------------------------------
(* /cancelschedule <number> HH:MM   (index.js:1145-1176) *)

\* the handler up to `await removeScheduleFromDb`, or to its end when schedules[id] is absent
CancelStart(chatId, rawNumber, hour, minute) ==
    /\ Len(cmds) < MaxCmds
    /\ LET number == NormalizeNumber(rawNumber)
           id == CancelId(number, hour, minute)
           h == IF id \in SchedIds THEN scheduledJobs[id] ELSE 0
           found == ObjHas(schedules, id)
       IN  /\ jobs' = IF h # 0 THEN [jobs EXCEPT ![h].state = "destroyed"] ELSE jobs
           /\ scheduledJobs' = IF id \in SchedIds THEN [scheduledJobs EXCEPT ![id] = 0]
                               ELSE scheduledJobs
           /\ cmds' = Append(cmds, [kind |-> "cancel", chatId |-> chatId, id |-> id,
                                    number |-> number, text |-> "", hour |-> hour,
                                    minute |-> minute,
                                    pc |-> IF found THEN "db" ELSE "done", res |-> FALSE,
                                    reply |-> IF found THEN "none" ELSE "notfound",
                                    at |-> IF found THEN 0 ELSE Len(cmds) + 1])
    /\ UNCHANGED <<notSched, dbSchedules, schedules, startPc, loaded, lastSend>>

\* the DELETE takes effect (resolve(this.changes > 0)) or fails (resolve(false))
CancelDb(i) ==
    /\ cmds[i].kind = "cancel" /\ cmds[i].pc = "db"
    /\ \E ok \in BOOLEAN :
         /\ dbSchedules' = IF ok THEN removeScheduleFromDb(dbSchedules, cmds[i].id) ELSE dbSchedules
         /\ cmds' = [cmds EXCEPT ![i].pc = "cb",
                                 ![i].res = ok /\ DbHasSchedule(dbSchedules, cmds[i].id)]
    /\ UNCHANGED <<notSched, schedules, scheduledJobs, jobs, startPc, loaded, lastSend>>

\* the code after the await (index.js:1167-1172)
CancelDone(i) ==
    /\ cmds[i].kind = "cancel" /\ cmds[i].pc = "cb"
    /\ IF cmds[i].res
       THEN /\ schedules' = ObjDelete(schedules, cmds[i].id)
            /\ cmds' = [cmds EXCEPT ![i].pc = "done", ![i].reply = "cancelled", ![i].at = Len(cmds)]
       ELSE /\ cmds' = [cmds EXCEPT ![i].pc = "done", ![i].reply = "removefailed", ![i].at = Len(cmds)]
            /\ UNCHANGED schedules
    /\ UNCHANGED <<notSched, dbSchedules, scheduledJobs, jobs, startPc, loaded, lastSend>>

-----------------------------------------------------------------------------
(* The cron callback of a job (index.js:1057-1073) *)

FireOutcomes == {"notready", "unregistered", "sendfailed", "sent"}

Fire(h) ==
    /\ Live(jobs[h])
    /\ \E outcome \in FireOutcomes :
         lastSend' = IF outcome \in {"sendfailed", "sent"}
                     THEN [to |-> jobs[h].number, text |-> jobs[h].text]
                     ELSE lastSend
    /\ UNCHANGED <<notSched, dbSchedules, schedules, scheduledJobs, jobs, startPc, loaded, cmds>>


-----------------------------------------------------------------------------
(* The admin gate (index.js:17 and 630-632) *)

\* parseInt of something that is no number; SameValueZero makes it equal to itself
\* and to no chat id
NaN == -1

\* characters of the ADMIN_CHAT_IDS environment variable
EnvChars == {"1", "2", ",", " ", "x"}

MaxEnvLen == 3

AdminEnvs == UNION {[1..n -> EnvChars] : n \in 0..MaxEnvLen}

\* s.split(',')
RECURSIVE Split(_)
Split(s) ==
    IF \E i \in 1..Len(s) : s[i] = ","
    THEN LET c == CHOOSE i \in 1..Len(s) : s[i] = "," /\ \A j \in 1..(i - 1) : s[j] # ","
         IN  <<SubSeq(s, 1, c - 1)>> \o Split(SubSeq(s, c + 1, Len(s)))
    ELSE <<s>>

\* the longest prefix of decimal digits
RECURSIVE DigitPrefix(_)
DigitPrefix(s) == IF s # <<>> /\ s[1] \in Digits THEN <<s[1]>> \o DigitPrefix(Tail(s)) ELSE <<>>

\* parseInt(s): leading white space is skipped, the digits that follow are read
RECURSIVE ParseInt(_)
ParseInt(s) ==
    IF StartsWith(s, " ") THEN ParseInt(Tail(s))
    ELSE IF DigitPrefix(s) = <<>> THEN NaN
    ELSE DecVal(DigitPrefix(s))

\* process.env.ADMIN_CHAT_IDS ? process.env.ADMIN_CHAT_IDS.split(',').map(id => parseInt(id)) : []
\* (an unset variable and the empty string are both falsy)
ParseAdminChatIds(env) ==
    IF env = <<>> THEN <<>>
    ELSE LET parts == Split(env) IN [i \in 1..Len(parts) |-> ParseInt(parts[i])]

\* Array.prototype.includes
ArrayIncludes(a, x) == \E i \in 1..Len(a) : a[i] = x

\* isAdmin without the open mode of an empty list
isAdmin_MembersOnly(chatId) == ArrayIncludes(ADMIN_CHAT_IDS, chatId)

\* index.js:630-632
isAdmin(chatId) == Len(ADMIN_CHAT_IDS) = 0 \/ ArrayIncludes(ADMIN_CHAT_IDS, chatId)

\* one evaluation of the gate, as every gated handler makes it first
CheckAdmin(chatId) ==
    /\ probe' = [chatId |-> chatId, admin |-> isAdmin(chatId)]
    /\ UNCHANGED <<ADMIN_CHAT_IDS, schedVars, ruleVars, numVars, inbox, sendVars, boot, waVars>>

-----------------------------------------------------------------------------
(* Rule store: inputs and text operations *)

\* triggers as typed between the quotes of /addrule, /editrule, /deleterule
Triggers == {<<"A">>, <<"a", "b">>, <<"1">>}

\* replies as typed
Replies == {"r1", "r2"}

TextChars == {"a", "A", "b", "1"}

MaxTextLen == 2

\* texts of inbound messages
Texts == UNION {[1..n -> TextChars] : n \in 1..MaxTextLen}

LowerChar(c) == IF c = "A" THEN "a" ELSE c

\* s.toLowerCase()
ToLowerCase(s) == [i \in 1..Len(s) |-> LowerChar(s[i])]

\* s.includes(t)
Includes(s, t) == \E i \in 1..(Len(s) - Len(t) + 1) : SubSeq(s, i, i + Len(t) - 1) = t

-----------------------------------------------------------------------------
(* The durable table `rules` (trigger TEXT PRIMARY KEY, reply TEXT) *)

DbHasRule(db, trigger) == \E i \in 1..Len(db) : db[i].trigger = trigger

\* SELECT reply FROM rules WHERE trigger = ?   ("" : no row)
DbRuleReply(db, trigger) ==
    IF DbHasRule(db, trigger)
    THEN db[CHOOSE i \in 1..Len(db) : db[i].trigger = trigger].reply
    ELSE ""

\* INSERT OR REPLACE INTO rules: a row with the same trigger is deleted, the new
\* row gets a new rowid
InsertOrReplaceRule(db, trigger, reply) ==
    Append(SelectSeq(db, LAMBDA r : r.trigger # trigger), [trigger |-> trigger, reply |-> reply])

\* DELETE FROM rules WHERE trigger = ?
DeleteRuleRow(db, trigger) == SelectSeq(db, LAMBDA r : r.trigger # trigger)

\* index.js:555-567: SELECT * FROM rules, rows.forEach(row => rules[row.trigger] = row.reply)
RECURSIVE loadRulesFromDB(_)
loadRulesFromDB(db) ==
    IF db = <<>> THEN <<>>
    ELSE ObjSet(loadRulesFromDB(SubSeq(db, 1, Len(db) - 1)), db[Len(db)].trigger, db[Len(db)].reply)

-----------------------------------------------------------------------------
(* The matcher *)

\* the first entry of the object, in enumeration order, whose trigger occurs in body
RECURSIVE FirstMatch(_, _)
FirstMatch(o, body) ==
    IF o = <<>> THEN ""
    ELSE IF Includes(body, ToLowerCase(o[1].k)) THEN o[1].v
    ELSE FirstMatch(Tail(o), body)

\* index.js:708-723: the auto-reply of the Telegram handler to a text ("" : none)
TelegramReply(rs, text) ==
    IF text = <<>> \/ StartsWith(text, "/") THEN ""
    ELSE FirstMatch(rs, ToLowerCase(text))

\* index.js:219-241: the auto-reply of the WhatsApp handler to the body of a message of
\* an authorized sender, matched against the rows that loadRulesFromDB read
WhatsAppReply(db, body) == FirstMatch(loadRulesFromDB(db), ToLowerCase(body))

\* bot.on('message'): a text message arrives on Telegram
TelegramMessage(text) ==
    /\ tgReply' = TelegramReply(rules, text)
    /\ UNCHANGED <<notRules, dbRules, rules, rulesPc, rulesLoaded, ruleCmds>>

-----------------------------------------------------------------------------
(* Startup load of the rules: loadRulesFromDB((loadedRules) => { rules = loadedRules }) *)

\* db.all takes effect: the rows are read (or the read fails and {} is passed on)
RulesLoad ==
    /\ rulesPc = "db"
    /\ \E ok \in BOOLEAN :
         rulesLoaded' = IF ok THEN loadRulesFromDB(dbRules) ELSE <<>>
    /\ rulesPc' = "cb"
    /\ UNCHANGED <<notRules, dbRules, rules, ruleCmds, tgReply>>

\* the callback: rules = loadedRules
RulesInit ==
    /\ rulesPc = "cb"
    /\ rules' = rulesLoaded
    /\ rulesLoaded' = <<>>
    /\ rulesPc' = "done"
    /\ UNCHANGED <<notRules, dbRules, ruleCmds, tgReply>>

-----------------------------------------------------------------------------
(* /addrule, /editrule, /deleterule   (index.js:750-812) *)

\* a command whose trigger is kept as typed (no toLowerCase)
RuleCmd_KeepsCase(kind, chatId, typed, reply, pc, out, at) ==
    [kind |-> kind, chatId |-> chatId, typed |-> typed, trigger |-> typed,
     reply |-> reply, pc |-> pc, res |-> "", old |-> "", out |-> out, at |-> at]

\* a command as received; `at` is the number of commands received when it was answered
RuleCmd(kind, chatId, typed, reply, pc, out, at) ==
    [kind |-> kind, chatId |-> chatId, typed |-> typed, trigger |-> ToLowerCase(typed),
     reply |-> reply, pc |-> pc, res |-> "", old |-> "", out |-> out, at |-> at]

\* a pattern whose quoted argument may be empty, "([^"]*)"
RuleArgMatches_MayBeEmpty(typed) == TRUE

\* the quoted argument of the patterns of /addrule, /editrule and /deleterule,
\* "([^"]+)" (index.js:750, 770, 789): at least one character between the quotes
RuleArgMatches(typed) == typed # <<>>

\* the handler of a command up to its first database call; a text that the pattern does
\* not match reaches no onText handler, and bot.on('message') returns at once for a text
\* that starts with "/" (index.js:710)
RuleStart(kind, chatId, typed, reply) ==
    /\ Len(ruleCmds) < MaxRuleCmds
    /\ ruleCmds' = Append(ruleCmds,
         IF ~RuleArgMatches(typed)
         THEN RuleCmd(kind, chatId, typed, reply, "done", "nomatch", Len(ruleCmds) + 1)
         ELSE IF ~isAdmin(chatId)
         THEN RuleCmd(kind, chatId, typed, reply, "done", "denied", Len(ruleCmds) + 1)
         ELSE RuleCmd(kind, chatId, typed, reply, IF kind = "editrule" THEN "get" ELSE "db", "", 0))
    /\ UNCHANGED <<notRules, dbRules, rules, rulesPc, rulesLoaded, tgReply>>

\* index.js:750-767
AddRuleStart(chatId, typed, reply) == RuleStart("addrule", chatId, typed, reply)

\* index.js:789-799
EditRuleStart(chatId, typed, reply) == RuleStart("editrule", chatId, typed, reply)

\* index.js:770-779
DeleteRuleStart(chatId, typed) == RuleStart("deleterule", chatId, typed, "")

\* getRuleFromDB: the SELECT takes effect (an error gives null, like no row)
EditRuleGet(i) ==
    /\ ruleCmds[i].kind = "editrule" /\ ruleCmds[i].pc = "get"
    /\ \E ok \in BOOLEAN :
         ruleCmds' = [ruleCmds EXCEPT ![i].pc = "got",
                         ![i].res = IF ok THEN "" ELSE "err",
                         ![i].old = IF ok THEN DbRuleReply(dbRules, ruleCmds[i].trigger) ELSE ""]
    /\ UNCHANGED <<notRules, dbRules, rules, rulesPc, rulesLoaded, tgReply>>

\* the callback of getRuleFromDB (index.js:799-811)
EditRuleGot(i) ==
    /\ ruleCmds[i].kind = "editrule" /\ ruleCmds[i].pc = "got"
    /\ ruleCmds' = IF ruleCmds[i].old # ""
                   THEN [ruleCmds EXCEPT ![i].pc = "db"]
                   ELSE [ruleCmds EXCEPT ![i].pc = "done", ![i].out = "notfound",
                                         ![i].at = Len(ruleCmds)]
    /\ UNCHANGED <<notRules, dbRules, rules, rulesPc, rulesLoaded, tgReply>>

\* saveRuleToDB: the INSERT OR REPLACE takes effect or fails
SaveRuleDb(i) ==
    /\ ruleCmds[i].kind \in {"addrule", "editrule"} /\ ruleCmds[i].pc = "db"
    /\ \E ok \in BOOLEAN :
         /\ dbRules' = IF ok THEN InsertOrReplaceRule(dbRules, ruleCmds[i].trigger, ruleCmds[i].reply)
                       ELSE dbRules
         /\ ruleCmds' = [ruleCmds EXCEPT ![i].pc = "cb", ![i].res = IF ok THEN "ok" ELSE "err"]
    /\ UNCHANGED <<notRules, rules, rulesPc, rulesLoaded, tgReply>>

\* saveRuleToDB with `rules[trigger] = reply` before the `if (err)` test
saveRuleToDB_BeforeErrTest(rs, c) == ObjSet(rs, c.trigger, c.reply)

\* index.js:571-581: the callback of db.run in saveRuleToDB
saveRuleToDB(rs, c) == IF c.res = "ok" THEN ObjSet(rs, c.trigger, c.reply) ELSE rs

\* the callback of saveRuleToDB and the handler's reply
SaveRuleDone(i) ==
    /\ ruleCmds[i].kind \in {"addrule", "editrule"} /\ ruleCmds[i].pc = "cb"
    /\ rules' = saveRuleToDB(rules, ruleCmds[i])
    /\ ruleCmds' = [ruleCmds EXCEPT ![i].pc = "done", ![i].at = Len(ruleCmds),
                       ![i].out = IF ruleCmds[i].res = "ok"
                                  THEN (IF ruleCmds[i].kind = "addrule" THEN "added" ELSE "updated")
                                  ELSE "savefailed"]
    /\ UNCHANGED <<notRules, dbRules, rulesPc, rulesLoaded, tgReply>>

\* deleteRuleFromDB: the DELETE takes effect or fails
DeleteRuleDb(i) ==
    /\ ruleCmds[i].kind = "deleterule" /\ ruleCmds[i].pc = "db"
    /\ \E ok \in BOOLEAN :
         /\ dbRules' = IF ok THEN DeleteRuleRow(dbRules, ruleCmds[i].trigger) ELSE dbRules
         /\ ruleCmds' = [ruleCmds EXCEPT ![i].pc = "cb",
                           ![i].res = IF ~ok THEN "err"
                                      ELSE IF DbHasRule(dbRules, ruleCmds[i].trigger) THEN "removed"
                                      ELSE "absent"]
    /\ UNCHANGED <<notRules, rules, rulesPc, rulesLoaded, tgReply>>

\* deleteRuleFromDB without `delete rules[trigger]`
deleteRuleFromDB_KeepsMemory(rs, c) == rs

\* index.js:585-595: the callback of db.run in deleteRuleFromDB
deleteRuleFromDB(rs, c) == IF c.res = "err" THEN rs ELSE ObjDelete(rs, c.trigger)

\* the callback of deleteRuleFromDB and the handler's reply (index.js:779-785)
DeleteRuleDone(i) ==
    /\ ruleCmds[i].kind = "deleterule" /\ ruleCmds[i].pc = "cb"
    /\ rules' = deleteRuleFromDB(rules, ruleCmds[i])
    /\ ruleCmds' = [ruleCmds EXCEPT ![i].pc = "done", ![i].at = Len(ruleCmds),
                       ![i].out = IF ruleCmds[i].res = "removed" THEN "deleted" ELSE "notfound"]
    /\ UNCHANGED <<notRules, dbRules, rulesPc, rulesLoaded, tgReply>>

-----------------------------------------------------------------------------
(* The allow-list of WhatsApp senders (index.js:393-461, 622-627, 816-892) *)

\* numbers as typed after /addnumber and /removenumber (\d+): bare, with a leading zero,
\* already carrying the country code
NumberForms == {<<"9", "8">>, <<"0", "9", "8">>, <<"9", "1", "9", "8">>}

CUS == <<"@", "c", ".", "u", "s">>

GUS == <<"@", "g", ".", "u", "s">>

\* s.replace(pat, ''): the first occurrence of pat is removed
Remove(s, pat) ==
    IF Includes(s, pat)
    THEN LET at == CHOOSE i \in 1..(Len(s) - Len(pat) + 1) :
                      /\ SubSeq(s, i, i + Len(pat) - 1) = pat
                      /\ \A j \in 1..(i - 1) : SubSeq(s, j, j + Len(pat) - 1) # pat
         IN  SubSeq(s, 1, at - 1) \o SubSeq(s, at + Len(pat), Len(s))
    ELSE s

\* a.indexOf(x), counted from 1 (0 : not found)
IndexOf(a, x) ==
    IF ArrayIncludes(a, x)
    THEN CHOOSE i \in 1..Len(a) : a[i] = x /\ \A j \in 1..(i - 1) : a[j] # x
    ELSE 0

\* a.splice(index, 1) for an index counted from 1
Splice(a, index) ==
    IF index \in 1..Len(a) THEN SubSeq(a, 1, index - 1) \o SubSeq(a, index + 1, Len(a)) ELSE a

\* isAuthorizedNumber of an allow-list that is not consulted
isAuthorizedNumber_Anyone(phoneNumber) == TRUE

\* index.js:623-627
isAuthorizedNumber(phoneNumber) ==
    ArrayIncludes(authorizedNumbers, Remove(Remove(phoneNumber, CUS), GUS))

\* INSERT OR IGNORE INTO authorized_numbers (number TEXT PRIMARY KEY)
InsertOrIgnoreNumber(db, number) == IF ArrayIncludes(db, number) THEN db ELSE Append(db, number)

\* DELETE FROM authorized_numbers WHERE number = ?
DeleteNumberRow(db, number) == SelectSeq(db, LAMBDA n : n # number)

\* startup (index.js:648-652; no authorized_numbers.json is left to migrate): db.all takes
\* effect, the rows are read (or the read fails and [] is resolved)
NumbersLoad ==
    /\ numsPc = "db"
    /\ \E ok \in BOOLEAN : numsLoaded' = IF ok THEN dbNumbers ELSE <<>>
    /\ numsPc' = "cb"
    /\ UNCHANGED <<notNums, dbNumbers, authorizedNumbers, numCmds>>

\* the code after the await: authorizedNumbers = ...
NumbersInit ==
    /\ numsPc = "cb"
    /\ authorizedNumbers' = numsLoaded
    /\ numsLoaded' = <<>>
    /\ numsPc' = "done"
    /\ UNCHANGED <<notNums, dbNumbers, numCmds>>

\* a command as received; index is what indexOf returned, `at` the number of commands
\* received when it was answered
NumCmd(kind, chatId, raw, pc, out, index, at) ==
    [kind |-> kind, chatId |-> chatId, raw |-> raw, number |-> NormalizeNumber(raw),
     pc |-> pc, res |-> FALSE, out |-> out, index |-> index, at |-> at]

\* /addnumber up to `await saveAuthorizedNumberToDb` (index.js:816-834)
AddNumberStart(chatId, raw) ==
    /\ Len(numCmds) < MaxNumCmds
    /\ numCmds' = Append(numCmds,
         IF ~isAdmin(chatId)
         THEN NumCmd("addnumber", chatId, raw, "done", "denied", 0, Len(numCmds) + 1)
         ELSE IF ArrayIncludes(authorizedNumbers, NormalizeNumber(raw))
         THEN NumCmd("addnumber", chatId, raw, "done", "already", 0, Len(numCmds) + 1)
         ELSE NumCmd("addnumber", chatId, raw, "db", "", 0, 0))
    /\ UNCHANGED <<notNums, dbNumbers, authorizedNumbers, numsPc, numsLoaded>>

\* saveAuthorizedNumberToDb: the INSERT OR IGNORE takes effect (resolve(true)) or fails
AddNumberDb(i) ==
    /\ numCmds[i].kind = "addnumber" /\ numCmds[i].pc = "db"
    /\ \E ok \in BOOLEAN :
         /\ dbNumbers' = IF ok THEN InsertOrIgnoreNumber(dbNumbers, numCmds[i].number)
                         ELSE dbNumbers
         /\ numCmds' = [numCmds EXCEPT ![i].pc = "cb", ![i].res = ok]
    /\ UNCHANGED <<notNums, authorizedNumbers, numsPc, numsLoaded>>

\* the code after the await (index.js:835-840)
AddNumberDone(i) ==
    /\ numCmds[i].kind = "addnumber" /\ numCmds[i].pc = "cb"
    /\ authorizedNumbers' = IF numCmds[i].res THEN Append(authorizedNumbers, numCmds[i].number)
                            ELSE authorizedNumbers
    /\ numCmds' = [numCmds EXCEPT ![i].pc = "done", ![i].at = Len(numCmds),
                                  ![i].out = IF numCmds[i].res THEN "added" ELSE "addfailed"]
    /\ UNCHANGED <<notNums, dbNumbers, numsPc, numsLoaded>>

\* /removenumber up to `await removeAuthorizedNumberFromDb` (index.js:865-882)
RemoveNumberStart(chatId, raw) ==
    /\ Len(numCmds) < MaxNumCmds
    /\ numCmds' = Append(numCmds,
         IF ~isAdmin(chatId)
         THEN NumCmd("removenumber", chatId, raw, "done", "denied", 0, Len(numCmds) + 1)
         ELSE IF IndexOf(authorizedNumbers, NormalizeNumber(raw)) = 0
         THEN NumCmd("removenumber", chatId, raw, "done", "notlisted", 0, Len(numCmds) + 1)
         ELSE NumCmd("removenumber", chatId, raw, "db", "",
                     IndexOf(authorizedNumbers, NormalizeNumber(raw)), 0))
    /\ UNCHANGED <<notNums, dbNumbers, authorizedNumbers, numsPc, numsLoaded>>

\* removeAuthorizedNumberFromDb: the DELETE takes effect (resolve(this.changes > 0)) or fails
RemoveNumberDb(i) ==
    /\ numCmds[i].kind = "removenumber" /\ numCmds[i].pc = "db"
    /\ \E ok \in BOOLEAN :
         /\ dbNumbers' = IF ok THEN DeleteNumberRow(dbNumbers, numCmds[i].number) ELSE dbNumbers
         /\ numCmds' = [numCmds EXCEPT ![i].pc = "cb",
                           ![i].res = ok /\ ArrayIncludes(dbNumbers, numCmds[i].number)]
    /\ UNCHANGED <<notNums, authorizedNumbers, numsPc, numsLoaded>>

\* the code after the await (index.js:883-888): splice with the index found before it
RemoveNumberDone(i) ==
    /\ numCmds[i].kind = "removenumber" /\ numCmds[i].pc = "cb"
    /\ authorizedNumbers' = IF numCmds[i].res THEN Splice(authorizedNumbers, numCmds[i].index)
                            ELSE authorizedNumbers
    /\ numCmds' = [numCmds EXCEPT ![i].pc = "done", ![i].at = Len(numCmds),
                                  ![i].out = IF numCmds[i].res THEN "removed" ELSE "removefailed"]
    /\ UNCHANGED <<notNums, dbNumbers, numsPc, numsLoaded>>

-----------------------------------------------------------------------------
(* Inbound messages (index.js:206-242 and 708-723) *)

\* msg.from of WhatsApp messages
Senders == {<<"9", "1", "9", "8">> \o CUS, <<"9", "8">> \o CUS}

\* the loop over the rule set with its `break`: the entries that fire for body
RECURSIVE RuleLoop(_, _)
RuleLoop(o, body) ==
    IF o = <<>> THEN <<>>
    ELSE IF Includes(body, ToLowerCase(o[1].k)) THEN <<o[1]>>
    ELSE RuleLoop(Tail(o), body)

\* the Telegram handler matching the text as typed
TelegramSends_CaseSensitive(rs, text) ==
    IF text = <<>> \/ StartsWith(text, "/") THEN <<>> ELSE RuleLoop(rs, text)

\* index.js:708-723: the entries whose reply the Telegram handler sends for a text
TelegramSends(rs, text) ==
    IF text = <<>> \/ StartsWith(text, "/") THEN <<>> ELSE RuleLoop(rs, ToLowerCase(text))

\* a message as received: `snap` is the rule set it was matched against, `fired` the
\* entries that matched, `sent` the bodies handed to sendMessage
Msg(chan, from, text, pc, looked, snap, fired, sent) ==
    [chan |-> chan, from |-> from, text |-> text, pc |-> pc, looked |-> looked,
     snap |-> snap, fired |-> fired, sent |-> sent, isStatus |-> FALSE, fromMe |-> FALSE]

\* bot.on('message') with the message kept in the inbox: the loop runs and the reply is
\* sent within the handler
TelegramHandler(text) ==
    /\ LET fired == TelegramSends(rules, text)
       IN  inbox' = Append(inbox, Msg("tg", <<>>, text, "done", TRUE, rules, fired,
                                      [n \in 1..Len(fired) |-> fired[n].v]))
    /\ tgReply' = TelegramReply(rules, text)
    /\ UNCHANGED <<notMsgs, dbRules, rules, rulesPc, rulesLoaded, ruleCmds>>

\* a Telegram text message arrives
TelegramInbound(text) == Len(inbox) < MaxMsgs /\ TelegramHandler(text)

\* a test that lets the bot's own messages through
WaSkips_StatusOnly(isStatus, fromMe) == isStatus

\* index.js:211: `if (msg.isStatus || msg.fromMe) return`
WaSkips(isStatus, fromMe) == isStatus \/ fromMe

\* client.on('message') up to loadRulesFromDB (index.js:206-223): a status broadcast and
\* a message of the bot's own account are skipped, a message of a sender who is not
\* authorized is dropped
WaMessage(from, body, isStatus, fromMe) ==
    /\ inbox' = Append(inbox,
         [(IF WaSkips(isStatus, fromMe) \/ ~isAuthorizedNumber(from)
           THEN Msg("wa", from, body, "done", FALSE, <<>>, <<>>, <<>>)
           ELSE Msg("wa", from, body, "load", FALSE, <<>>, <<>>, <<>>))
          EXCEPT !.isStatus = isStatus, !.fromMe = fromMe])
    /\ UNCHANGED <<notMsgs, ruleVars>>

\* a WhatsApp message of another account that is no status broadcast arrives
WaReceive(from, body) == Len(inbox) < MaxMsgs /\ WaMessage(from, body, FALSE, FALSE)

\* db.all of loadRulesFromDB takes effect (or fails and {} is passed on) and its callback
\* runs the loop over the object it built: the first trigger that occurs sets the timer
WaLoad(i) ==
    /\ inbox[i].chan = "wa" /\ inbox[i].pc = "load"
    /\ \E ok \in BOOLEAN :
         LET snap == IF ok THEN loadRulesFromDB(dbRules) ELSE <<>>
             fired == RuleLoop(snap, ToLowerCase(inbox[i].text))
         IN  inbox' = [inbox EXCEPT ![i].looked = TRUE, ![i].snap = snap, ![i].fired = fired,
                                    ![i].pc = IF fired = <<>> THEN "done" ELSE "timer"]
    /\ UNCHANGED <<notMsgs, ruleVars>>

\* the body read from the global rules object when the timer runs
WaReplyBody_Global(m) ==
    IF ObjHas(rules, m.fired[1].k) THEN ObjGet(rules, m.fired[1].k) ELSE ""

\* index.js:231: rules[trigger], `rules` being the parameter of the callback
WaReplyBody(m) == ObjGet(m.snap, m.fired[1].k)

\* the timer callback, 5 seconds later: client.sendMessage(msg.from, rules[trigger]),
\* an error of the send is caught and logged
WaSend(i) ==
    /\ inbox[i].chan = "wa" /\ inbox[i].pc = "timer"
    /\ inbox' = [inbox EXCEPT ![i].pc = "done", ![i].sent = <<WaReplyBody(inbox[i])>>]
    /\ UNCHANGED <<notMsgs, ruleVars>>

-----------------------------------------------------------------------------
(* Outbound WhatsApp sends: the cron callback step by step and /send *)

\* the WhatsApp client as a handler finds it: `client` still undefined (index.js:26, set
\* by initializeWhatsAppClient), client.info not set, client.info set
ClientStates == {"missing", "notready", "ready"}

\* what client.getNumberId does: resolves an id, resolves null, rejects
ResolveOutcomes == {"id", "null", "throws"}

\* the cron callback starts (index.js:1057-1062): reading client.info of an undefined
\* client throws a TypeError inside the try, which the catch logs
CronFire(h) ==
    /\ Len(fires) < MaxFires
    /\ Live(jobs[h])
    /\ \E c \in ClientStates :
         fires' = Append(fires,
            [job |-> h, attempts |-> 0, raised |-> FALSE,
             pc |-> IF c = "ready" THEN "resolve" ELSE "done",
             outcome |-> IF c = "ready" THEN "" ELSE IF c = "notready" THEN "notready"
                         ELSE "noclient"])
    /\ UNCHANGED <<notOut, sends, lastSend>>

\* await client.getNumberId(number) (index.js:1063-1067)
CronResolve(f) ==
    /\ fires[f].pc = "resolve"
    /\ \E r \in ResolveOutcomes :
         fires' = [fires EXCEPT ![f].pc = IF r = "id" THEN "send" ELSE "done",
                                ![f].outcome = IF r = "id" THEN ""
                                               ELSE IF r = "null" THEN "unregistered"
                                               ELSE "resolvefailed"]
    /\ UNCHANGED <<notOut, sends, lastSend>>

\* the callback with a send that is repeated when it throws
CronSend_Retries(f) ==
    /\ fires[f].pc = "send"
    /\ lastSend' = [to |-> jobs[fires[f].job].number, text |-> jobs[fires[f].job].text]
    /\ \E ok \in BOOLEAN :
         fires' = [fires EXCEPT ![f].attempts = @ + 1,
                                ![f].pc = IF ok THEN "done" ELSE "send",
                                ![f].outcome = IF ok THEN "sent" ELSE "sendfailed"]
    /\ UNCHANGED <<notOut, sends>>

\* await client.sendMessage(numberId._serialized, text) (index.js:1068-1072): the send
\* completes, or throws and the catch logs
CronSend(f) ==
    /\ fires[f].pc = "send"
    /\ lastSend' = [to |-> jobs[fires[f].job].number, text |-> jobs[fires[f].job].text]
    /\ \E ok \in BOOLEAN :
         fires' = [fires EXCEPT ![f].attempts = @ + 1, ![f].pc = "done",
                                ![f].outcome = IF ok THEN "sent" ELSE "sendfailed"]
    /\ UNCHANGED <<notOut, sends>>

\* /send <number> "message" up to `await client.getNumberId` (index.js:666-689): `replies`
\* are the replies to the requester, `attempts` the calls of client.sendMessage
SendStart(chatId, raw, text) ==
    /\ Len(sends) < MaxSends
    /\ \E c \in ClientStates :
         sends' = Append(sends,
            [chatId |-> chatId, number |-> NormalizeNumber(raw), text |-> text,
             attempts |-> 0, delivered |-> FALSE,
             pc |-> IF c = "ready" THEN "resolve" ELSE "done",
             replies |-> IF c = "ready" THEN <<>>
                         ELSE IF c = "notready" THEN <<"notready">>
                         ELSE <<"failed">>])
    /\ UNCHANGED <<notOut, fires, lastSend>>

\* /send whose not-registered branch has no `return`
SendResolve_NoReturn(i) ==
    /\ sends[i].pc = "resolve"
    /\ \E r \in ResolveOutcomes :
         sends' = [sends EXCEPT ![i].pc = IF r = "throws" THEN "done" ELSE "send",
                                ![i].replies = IF r = "id" THEN <<>>
                                               ELSE IF r = "null" THEN <<"unregistered">>
                                               ELSE <<"failed">>]
    /\ UNCHANGED <<notOut, fires, lastSend>>

\* the code after `await client.getNumberId(number)` (index.js:689-693); a rejection is
\* answered by the catch (index.js:700-703)
SendResolve(i) ==
    /\ sends[i].pc = "resolve"
    /\ \E r \in ResolveOutcomes :
         sends' = [sends EXCEPT ![i].pc = IF r = "id" THEN "send" ELSE "done",
                                ![i].replies = IF r = "id" THEN <<>>
                                               ELSE IF r = "null" THEN <<"unregistered">>
                                               ELSE <<"failed">>]
    /\ UNCHANGED <<notOut, fires, lastSend>>

\* await client.sendMessage(numberId._serialized, text) and the reply (index.js:696-703)
SendSend(i) ==
    /\ sends[i].pc = "send"
    /\ \E ok \in BOOLEAN :
         sends' = [sends EXCEPT ![i].pc = "done", ![i].attempts = @ + 1,
                                ![i].delivered = ok,
                                ![i].replies = Append(@, IF ok THEN "sent" ELSE "failed")]
    /\ UNCHANGED <<notOut, fires, lastSend>>

-----------------------------------------------------------------------------
(* Startup of the durable store: initializeDatabase and its then/catch *)

\* what the steps of initializeDatabase leave alone
notBoot == <<ADMIN_CHAT_IDS, probe, schedVars, ruleVars, numVars, inbox, sendVars, waVars>>

\* the process has not called process.exit
Alive == boot.pc # "exited"

\* the module body has run: the bot polls (index.js:14), the handlers are registered and
\* new sqlite3.Database has been called, its callback has not run yet
BootStart == boot = [pc |-> "open", tablesCreated |-> 0, promise |-> "pending",
                     failed |-> FALSE]

\* the callback of new sqlite3.Database (index.js:290-296): on an error the promise is
\* rejected and its catch calls process.exit(1) (index.js:388-391)
DbOpen ==
    /\ boot.pc = "open"
    /\ \E ok \in BOOLEAN :
         boot' = IF ok THEN [boot EXCEPT !.pc = "t1"]
                 ELSE [boot EXCEPT !.pc = "exited", !.failed = TRUE, !.promise = "rejected"]
    /\ UNCHANGED notBoot

\* the callback of CREATE TABLE of rules, authorized_numbers and schedules, run in this
\* order by db.serialize (index.js:304-359): the third success resolves the promise, an
\* error rejects it and the catch calls process.exit(1)
CreateTable ==
    /\ boot.pc \in {"t1", "t2", "t3"}
    /\ \E ok \in BOOLEAN :
         boot' = IF ok
                 THEN [boot EXCEPT !.tablesCreated = @ + 1,
                                   !.promise = IF boot.tablesCreated + 1 = 3
                                               THEN "resolved" ELSE @,
                                   !.pc = CASE boot.pc = "t1" -> "t2"
                                            [] boot.pc = "t2" -> "t3"
                                            [] OTHER -> "t4"]
                 ELSE [boot EXCEPT !.pc = "exited", !.failed = TRUE, !.promise = "rejected"]
    /\ UNCHANGED notBoot

\* the callback of CREATE TABLE of whatsapp_session (index.js:361-372): its reject(err)
\* finds the promise resolved already and has no effect
CreateSessionTable ==
    /\ boot.pc = "t4"
    /\ \E ok \in BOOLEAN :
         boot' = [boot EXCEPT !.pc = "end", !.failed = ~ok]
    /\ UNCHANGED notBoot

-----------------------------------------------------------------------------
(* The WhatsApp client: initializeWhatsAppClient, its events and timers *)

\* calls of initializeWhatsAppClient, made or pending, in one run
MaxInits == 3

\* the retries of initializeWithRetry: `if (retryCount < 5)` (index.js:259)
MaxRetries == 5

\* what the steps of the client lifecycle leave alone
notWa == <<ADMIN_CHAT_IDS, probe, schedVars, ruleVars, numVars, inbox, sendVars, boot>>

\* a Client instance that has been created and not destroyed
LiveClient(c) == clients[c].state # "destroyed"

LiveClients == {c \in 1..Len(clients) : LiveClient(c)}

\* the module body has run: the timer of index.js:279-281 is pending
ClientStart ==
    /\ client = 0
    /\ clients = <<>>
    /\ isClientInitialized = FALSE
    /\ timers = <<"start">>
    /\ inits = <<>>

\* a call as it is made; `target` is the client whose initialize() is pending
InitCall(pc) == [pc |-> pc, retryCount |-> 0, attempts |-> 0, target |-> 0, ok |-> FALSE]

\* a sequence without its element t
Without(q, t) == SubSeq(q, 1, t - 1) \o SubSeq(q, t + 1, Len(q))

\* initializeWhatsAppClient up to `await loadSessionFromDB()` (index.js:47-54)
initializeWhatsAppClient == IF isClientInitialized THEN InitCall("skipped")
                            ELSE InitCall("load")

\* a timer fires: the startup timer (index.js:279-281) and the timer of auth_failure
\* (index.js:150-153) call initializeWhatsAppClient, the timer of disconnected calls it
\* when isClientInitialized is false (index.js:178-183)
TimerFire(t) ==
    /\ inits' = IF timers[t] = "disc" /\ isClientInitialized THEN inits
                ELSE Append(inits, initializeWhatsAppClient)
    /\ timers' = Without(timers, t)
    /\ UNCHANGED <<notWa, client, clients, isClientInitialized>>

\* the code after `await loadSessionFromDB()`: client = new Client(...), the handlers
\* are registered, initializeWithRetry() calls client.initialize() (index.js:62-247, 272)
InitCreate(k) ==
    /\ inits[k].pc = "load"
    /\ clients' = Append(clients, [state |-> "initializing"])
    /\ client' = Len(clients) + 1
    /\ inits' = [inits EXCEPT ![k].pc = "attempt", ![k].attempts = 1,
                              ![k].target = Len(clients) + 1]
    /\ UNCHANGED <<notWa, isClientInitialized, timers>>

\* `await client.initialize()` resolves (index.js:250-252)
InitResolve(k) ==
    /\ inits[k].pc = "attempt"
    /\ isClientInitialized' = TRUE
    /\ inits' = [inits EXCEPT ![k].pc = "done", ![k].ok = TRUE]
    /\ UNCHANGED <<notWa, client, clients, timers>>

\* a catch that retries while retryCount <= 5
InitReject_OneMore(k) ==
    /\ inits[k].pc = "attempt"
    /\ isClientInitialized' = FALSE
    /\ inits' = [inits EXCEPT ![k].pc = IF inits[k].retryCount <= MaxRetries
                                        THEN "timer" ELSE "done"]
    /\ UNCHANGED <<notWa, client, clients, timers>>

\* `await client.initialize()` rejects (index.js:253-268): a retry timer is set while
\* retryCount < 5
InitReject(k) ==
    /\ inits[k].pc = "attempt"
    /\ isClientInitialized' = FALSE
    /\ inits' = [inits EXCEPT ![k].pc = IF inits[k].retryCount < MaxRetries
                                        THEN "timer" ELSE "done"]
    /\ UNCHANGED <<notWa, client, clients, timers>>

\* the retry timer fires: initializeWithRetry(retryCount + 1) calls initialize() of the
\* client that the variable `client` holds now (index.js:262)
InitRetry(k) ==
    /\ inits[k].pc = "timer"
    /\ inits' = [inits EXCEPT ![k].pc = "attempt", ![k].retryCount = @ + 1,
                              ![k].attempts = @ + 1, ![k].target = client]
    /\ UNCHANGED <<notWa, client, clients, isClientInitialized, timers>>

\* client.on('ready') of the instance c (index.js:116-122)
Ready(c) ==
    /\ clients[c].state = "initializing"
    /\ clients' = [clients EXCEPT ![c].state = "ready"]
    /\ isClientInitialized' = TRUE
    /\ UNCHANGED <<notWa, client, timers, inits>>

\* client.on('auth_failure') of the instance c (index.js:140-154): the handler destroys
\* nothing; whether the library destroys the instance after the event is not in this
\* code
AuthFailure(c) ==
    /\ Len(timers) + Len(inits) < MaxInits
    /\ LiveClient(c)
    /\ isClientInitialized' = FALSE
    /\ \E destroyed \in BOOLEAN :
         clients' = IF destroyed THEN [clients EXCEPT ![c].state = "destroyed"] ELSE clients
    /\ timers' = Append(timers, "auth")
    /\ UNCHANGED <<notWa, client, inits>>

\* client.on('disconnected') of the instance c (index.js:156-184): client.destroy() is
\* called on the instance that the variable `client` holds, and may throw
Disconnected(c) ==
    /\ Len(timers) + Len(inits) < MaxInits
    /\ LiveClient(c)
    /\ isClientInitialized' = FALSE
    /\ \E ok \in BOOLEAN :
         clients' = IF ok THEN [clients EXCEPT ![client].state = "destroyed"] ELSE clients
    /\ timers' = Append(timers, "disc")
    /\ UNCHANGED <<notWa, client, inits>>

-----------------------------------------------------------------------------
(* Initial states and specifications *)

\* rows a previous run can have left in `rules`: lower-case triggers, none twice
MaxInitRules == 1

InitRuleRows == {[trigger |-> ToLowerCase(t), reply |-> "r1"] : t \in Triggers}

InitRuleTables == {s \in UNION {[1..n -> InitRuleRows] : n \in 0..MaxInitRules} :
                      \A i, j \in 1..Len(s) : s[i].trigger = s[j].trigger => i = j}

InitRules ==
    /\ dbRules \in InitRuleTables
    /\ rules = <<>>
    /\ rulesPc = "db"
    /\ rulesLoaded = <<>>
    /\ ruleCmds = <<>>
    /\ tgReply = ""

\* the scheduler with an empty table, started up, no command received
SchedAtRest ==
    /\ dbSchedules = <<>>
    /\ schedules = <<>>
    /\ scheduledJobs = [id \in SchedIds |-> 0]
    /\ jobs = <<>>
    /\ startPc = "done"
    /\ loaded = <<>>
    /\ cmds = <<>>
    /\ lastSend = [to |-> <<>>, text |-> ""]

\* the rule store with an empty table, loaded, no command received
RulesAtRest ==
    /\ dbRules = <<>>
    /\ rules = <<>>
    /\ rulesPc = "done"
    /\ rulesLoaded = <<>>
    /\ ruleCmds = <<>>
    /\ tgReply = ""

NoProbe == probe = [chatId |-> 0, admin |-> FALSE]

\* the allow-list with an empty table, loaded, no command received
NumbersAtRest ==
    /\ dbNumbers = <<>>
    /\ authorizedNumbers = <<>>
    /\ numsPc = "done"
    /\ numsLoaded = <<>>
    /\ numCmds = <<>>

\* no inbound message received
InboxEmpty == inbox = <<>>

\* no cron callback has run, no /send received
NoSends == fires = <<>> /\ sends = <<>>

\* no call of initializeWhatsAppClient made or pending
ClientIdle ==
    /\ client = 0
    /\ clients = <<>>
    /\ isClientInitialized = FALSE
    /\ timers = <<>>
    /\ inits = <<>>

\* initializeDatabase has resolved: the database is open, the three tables it counts
\* exist, isDatabaseReady is true; no update handled yet
Booted == boot = [pc |-> "end", tablesCreated |-> 3, promise |-> "resolved",
                  failed |-> FALSE]

\* The scheduler: startup reconciliation, /schedule, /cancelschedule and cron fires
InitSchedSpec ==
    ADMIN_CHAT_IDS = <<>> /\ NoProbe /\ InitSched /\ RulesAtRest /\ NumbersAtRest /\ InboxEmpty /\ NoSends /\ Booted /\ ClientIdle

NextSched ==
    \/ StartupLoad
    \/ StartupInit
    \/ \E n \in Numbers, m \in Msgs, t \in Times : ScheduleStart(1, n, m, t.hour, t.minute)
    \/ \E i \in 1..Len(cmds) : ScheduleDb(i)
    \/ \E i \in 1..Len(cmds) : ScheduleDone(i)
    \/ \E n \in Numbers, t \in Times : CancelStart(1, n, t.hour, t.minute)
    \/ \E i \in 1..Len(cmds) : CancelDb(i)
    \/ \E i \in 1..Len(cmds) : CancelDone(i)
    \/ \E h \in 1..Len(jobs) : Fire(h)

SpecSched == InitSchedSpec /\ [][NextSched]_vars

\* The rule store: startup load, rule commands of the admin, Telegram messages
InitRulesSpec ==
    ADMIN_CHAT_IDS = <<1>> /\ NoProbe /\ SchedAtRest /\ InitRules /\ NumbersAtRest /\ InboxEmpty /\ NoSends /\ Booted /\ ClientIdle

NextRules ==
    \/ RulesLoad
    \/ RulesInit
    \/ \E t \in Triggers \cup {<<>>}, r \in Replies : AddRuleStart(1, t, r)
    \/ \E t \in Triggers \cup {<<>>}, r \in Replies : EditRuleStart(1, t, r)
    \/ \E t \in Triggers : DeleteRuleStart(1, t)
    \/ \E i \in 1..Len(ruleCmds) : EditRuleGet(i)
    \/ \E i \in 1..Len(ruleCmds) : EditRuleGot(i)
    \/ \E i \in 1..Len(ruleCmds) : SaveRuleDb(i)
    \/ \E i \in 1..Len(ruleCmds) : SaveRuleDone(i)
    \/ \E i \in 1..Len(ruleCmds) : DeleteRuleDb(i)
    \/ \E i \in 1..Len(ruleCmds) : DeleteRuleDone(i)
    \/ \E text \in Texts : TelegramMessage(text)

SpecRules == InitRulesSpec /\ [][NextRules]_vars

\* The admin gate on its own: any configuration, any requester
InitAdminSpec ==
    /\ ADMIN_CHAT_IDS \in {ParseAdminChatIds(env) : env \in AdminEnvs}
    /\ NoProbe /\ SchedAtRest /\ RulesAtRest /\ NumbersAtRest /\ InboxEmpty /\ NoSends /\ Booted /\ ClientIdle

NextAdmin == \E c \in ChatIds : CheckAdmin(c)

SpecAdmin == InitAdminSpec /\ [][NextAdmin]_vars

\* The admin commands as sent by admins and by others: the tables are empty and loaded
\* when the first command arrives
MaxGateCmds == 2

InitGateSpec ==
    /\ ADMIN_CHAT_IDS \in {<<>>, <<1>>}
    /\ NoProbe /\ SchedAtRest /\ RulesAtRest /\ NumbersAtRest /\ InboxEmpty /\ NoSends /\ Booted /\ ClientIdle

GateOpen == Len(cmds) + Len(ruleCmds) < MaxGateCmds

NextGate ==
    \/ \E c \in ChatIds, n \in Numbers, t \in Times :
         GateOpen /\ ScheduleStart(c, n, "m1", t.hour, t.minute)
    \/ \E i \in 1..Len(cmds) : ScheduleDb(i)
    \/ \E i \in 1..Len(cmds) : ScheduleDone(i)
    \/ \E c \in ChatIds, n \in Numbers, t \in Times :
         GateOpen /\ CancelStart(c, n, t.hour, t.minute)
    \/ \E i \in 1..Len(cmds) : CancelDb(i)
    \/ \E i \in 1..Len(cmds) : CancelDone(i)
    \/ \E c \in ChatIds, t \in Triggers : GateOpen /\ AddRuleStart(c, t, "r1")
    \/ \E c \in ChatIds, t \in Triggers : GateOpen /\ EditRuleStart(c, t, "r2")
    \/ \E c \in ChatIds, t \in Triggers : GateOpen /\ DeleteRuleStart(c, t)
    \/ \E i \in 1..Len(ruleCmds) : EditRuleGet(i)
    \/ \E i \in 1..Len(ruleCmds) : EditRuleGot(i)
    \/ \E i \in 1..Len(ruleCmds) : SaveRuleDb(i)
    \/ \E i \in 1..Len(ruleCmds) : SaveRuleDone(i)
    \/ \E i \in 1..Len(ruleCmds) : DeleteRuleDb(i)
    \/ \E i \in 1..Len(ruleCmds) : DeleteRuleDone(i)

SpecGate == InitGateSpec /\ [][NextGate]_vars

\* The matcher: inbound messages of both channels against a loaded rule set, with rule
\* commands of the admin in flight
MaxMatchRows == 2

MaxMatchCmds == 1

MatchRows == {[trigger |-> <<"a">>, reply |-> "r1"],
              [trigger |-> <<"a", "b">>, reply |-> "r2"],
              [trigger |-> <<"1">>, reply |-> "r2"]}

\* tables of rules: no trigger twice
MatchTables == {s \in UNION {[1..n -> MatchRows] : n \in 0..MaxMatchRows} :
                   \A i, j \in 1..Len(s) : s[i].trigger = s[j].trigger => i = j}

\* the rule store loaded from a table, no command received
RulesLoadedFrom(tables) ==
    /\ dbRules \in tables
    /\ rules = loadRulesFromDB(dbRules)
    /\ rulesPc = "done"
    /\ rulesLoaded = <<>>
    /\ ruleCmds = <<>>
    /\ tgReply = ""

\* the allow-list loaded from a table, no command received
NumbersLoadedFrom(tables) ==
    /\ dbNumbers \in tables
    /\ authorizedNumbers = dbNumbers
    /\ numsPc = "done"
    /\ numsLoaded = <<>>
    /\ numCmds = <<>>

InitMatchSpec ==
    /\ ADMIN_CHAT_IDS = <<>> /\ NoProbe /\ SchedAtRest
    /\ RulesLoadedFrom(MatchTables)
    /\ NumbersLoadedFrom({<<>>, <<NormalizeNumber(<<"9", "8">>)>>})
    /\ InboxEmpty /\ NoSends /\ Booted /\ ClientIdle

MatchOpen == Len(ruleCmds) < MaxMatchCmds

NextMatch ==
    \/ \E text \in Texts : TelegramInbound(text)
    \/ \E from \in Senders, body \in Texts : WaReceive(from, body)
    \/ \E i \in 1..Len(inbox) : WaLoad(i)
    \/ \E i \in 1..Len(inbox) : WaSend(i)
    \/ \E t \in Triggers, r \in Replies : MatchOpen /\ AddRuleStart(1, t, r)
    \/ \E t \in Triggers, r \in Replies : MatchOpen /\ EditRuleStart(1, t, r)
    \/ \E t \in Triggers : MatchOpen /\ DeleteRuleStart(1, t)
    \/ \E i \in 1..Len(ruleCmds) : EditRuleGet(i)
    \/ \E i \in 1..Len(ruleCmds) : EditRuleGot(i)
    \/ \E i \in 1..Len(ruleCmds) : SaveRuleDb(i)
    \/ \E i \in 1..Len(ruleCmds) : SaveRuleDone(i)
    \/ \E i \in 1..Len(ruleCmds) : DeleteRuleDb(i)
    \/ \E i \in 1..Len(ruleCmds) : DeleteRuleDone(i)

SpecMatch == InitMatchSpec /\ [][NextMatch]_vars

\* The allow-list: startup load, /addnumber and /removenumber of the admin, WhatsApp and
\* Telegram messages against the rule "a"
MaxInitNumbers == 2

InitNumberTables ==
    {s \in UNION {[1..n -> {NormalizeNumber(f) : f \in NumberForms}] : n \in 0..MaxInitNumbers} :
        \A i, j \in 1..Len(s) : s[i] = s[j] => i = j}

InitNumbersSpec ==
    /\ ADMIN_CHAT_IDS = <<>> /\ NoProbe /\ SchedAtRest
    /\ RulesLoadedFrom({<<[trigger |-> <<"a">>, reply |-> "r1"]>>})
    /\ dbNumbers \in InitNumberTables
    /\ authorizedNumbers = <<>>
    /\ numsPc = "db"
    /\ numsLoaded = <<>>
    /\ numCmds = <<>>
    /\ InboxEmpty /\ NoSends /\ Booted /\ ClientIdle

NextNumbers ==
    \/ NumbersLoad
    \/ NumbersInit
    \/ \E raw \in NumberForms : AddNumberStart(1, raw)
    \/ \E i \in 1..Len(numCmds) : AddNumberDb(i)
    \/ \E i \in 1..Len(numCmds) : AddNumberDone(i)
    \/ \E raw \in NumberForms : RemoveNumberStart(1, raw)
    \/ \E i \in 1..Len(numCmds) : RemoveNumberDb(i)
    \/ \E i \in 1..Len(numCmds) : RemoveNumberDone(i)
    \/ \E from \in Senders : WaReceive(from, <<"a">>)
    \/ \E text \in {<<"A">>, <<"b">>} : TelegramInbound(text)
    \/ \E i \in 1..Len(inbox) : WaLoad(i)
    \/ \E i \in 1..Len(inbox) : WaSend(i)

SpecNumbers == InitNumbersSpec /\ [][NextNumbers]_vars

\* Outbound sends: startup reconciliation of the schedules, cron callbacks of the live
\* jobs, /send commands
InitSendSpec ==
    /\ ADMIN_CHAT_IDS = <<>> /\ NoProbe /\ InitSched /\ RulesAtRest /\ NumbersAtRest
    /\ InboxEmpty /\ NoSends /\ Booted /\ ClientIdle

NextSend ==
    \/ StartupLoad
    \/ StartupInit
    \/ \E h \in 1..Len(jobs) : CronFire(h)
    \/ \E f \in 1..Len(fires) : CronResolve(f)
    \/ \E f \in 1..Len(fires) : CronSend(f)
    \/ \E c \in ChatIds, n \in Numbers, m \in Msgs : SendStart(c, n, m)
    \/ \E i \in 1..Len(sends) : SendResolve(i)
    \/ \E i \in 1..Len(sends) : SendSend(i)

SpecSend == InitSendSpec /\ [][NextSend]_vars

\* Startup of the durable store while the bot polls: the handlers are registered by the
\* module body and the updates the polling returns are handled whenever the process runs
InitBootSpec ==
    /\ ADMIN_CHAT_IDS = <<>> /\ NoProbe /\ SchedAtRest /\ RulesAtRest /\ NumbersAtRest
    /\ InboxEmpty /\ NoSends /\ BootStart /\ ClientIdle

NextBoot ==
    \/ DbOpen
    \/ CreateTable
    \/ CreateSessionTable
    \/ Alive /\ \E c \in ChatIds, n \in Numbers, m \in Msgs : SendStart(c, n, m)
    \/ Alive /\ \E i \in 1..Len(sends) : SendResolve(i)
    \/ Alive /\ \E i \in 1..Len(sends) : SendSend(i)
    \/ Alive /\ \E t \in {<<"A">>, <<"b">>} : TelegramInbound(t)

SpecBoot == InitBootSpec /\ [][NextBoot]_vars

\* The WhatsApp client: the startup timer, the calls of initializeWhatsAppClient, the
\* attempts of initializeWithRetry and the events of the instances
InitClientSpec ==
    /\ ADMIN_CHAT_IDS = <<>> /\ NoProbe /\ SchedAtRest /\ RulesAtRest /\ NumbersAtRest
    /\ InboxEmpty /\ NoSends /\ Booted /\ ClientStart

NextClient ==
    \/ \E t \in 1..Len(timers) : TimerFire(t)
    \/ \E k \in 1..Len(inits) : InitCreate(k)
    \/ \E k \in 1..Len(inits) : InitResolve(k)
    \/ \E k \in 1..Len(inits) : InitReject(k)
    \/ \E k \in 1..Len(inits) : InitRetry(k)
    \/ \E c \in 1..Len(clients) : Ready(c)
    \/ \E c \in 1..Len(clients) : AuthFailure(c)
    \/ \E c \in 1..Len(clients) : Disconnected(c)

SpecClient == InitClientSpec /\ [][NextClient]_vars

\* The filters of the two message handlers: WhatsApp messages with every value of
\* isStatus and fromMe, Telegram messages without text and with a leading "/", against
\* every rule table and with the sender in and out of the allow-list
FilterTexts == {<<>>, <<"/">>, <<"/", "a">>, <<"a">>}

FilterOpen == Len(inbox) < MaxFilterMsgs

InitFilterSpec ==
    /\ ADMIN_CHAT_IDS = <<>> /\ NoProbe /\ SchedAtRest
    /\ RulesLoadedFrom(MatchTables)
    /\ NumbersLoadedFrom({<<>>, <<NormalizeNumber(<<"9", "8">>)>>})
    /\ InboxEmpty /\ NoSends /\ Booted /\ ClientIdle

NextFilter ==
    \/ \E text \in FilterTexts : FilterOpen /\ TelegramHandler(text)
    \/ \E from \in Senders, body \in {<<"a">>, <<"/", "a">>}, s \in BOOLEAN, m \in BOOLEAN :
          FilterOpen /\ WaMessage(from, body, s, m)
    \/ \E i \in 1..Len(inbox) : WaLoad(i)
    \/ \E i \in 1..Len(inbox) : WaSend(i)

SpecFilter == InitFilterSpec /\ [][NextFilter]_vars

-----------------------------------------------------------------------------
(* Properties of the scheduler, checked under SpecSched *)

LiveJobsIn(js, id) == {h \in 1..Len(js) : js[h].id = id /\ Live(js[h])}

AllAnswered == \A i \in 1..Len(cmds) : cmds[i].pc = "done"

\* C1: in every reachable state each schedule id has at most one started cron job,
\* counting the jobs that scheduledJobs no longer refers to.
C1_AtMostOneStartedJobPerId ==
    \A id \in SchedIds : Cardinality(LiveJobs(id)) <= 1

\* C2: once two /schedule commands for the same id (with a time node-cron accepts, both
\* answered with the success reply, no other command for that id) have completed, the id
\* has exactly one live cron job and exactly one durable row, both with the message of
\* the later command.
C2_SecondScheduleReplacesFirst ==
    \A i, j \in 1..Len(cmds) :
        ( /\ i < j
          /\ cmds[i].kind = "schedule" /\ cmds[j].kind = "schedule"
          /\ cmds[i].id = cmds[j].id
          /\ cmds[i].reply = "scheduled" /\ cmds[j].reply = "scheduled"
          /\ ValidCron(cmds[j].hour, cmds[j].minute)
          /\ \A k \in 1..Len(cmds) : cmds[k].id = cmds[j].id => k \in {i, j} )
        => /\ Cardinality(LiveJobs(cmds[j].id)) = 1
           /\ \A h \in LiveJobs(cmds[j].id) : jobs[h].text = cmds[j].text
           /\ Cardinality({r \in 1..Len(dbSchedules) : dbSchedules[r].id = cmds[j].id}) = 1
           /\ \A r \in 1..Len(dbSchedules) :
                 dbSchedules[r].id = cmds[j].id => dbSchedules[r].message = cmds[j].text

\* the cancel command i was answered "cancelled" and no /schedule for its id has been
\* received since that answer
CancelStands(i) ==
    /\ cmds[i].kind = "cancel" /\ cmds[i].reply = "cancelled"
    /\ ~\E k \in 1..Len(cmds) :
          k > cmds[i].at /\ cmds[k].kind = "schedule" /\ cmds[k].id = cmds[i].id

\* a cron callback for id can start
FireEnabled(id) == \E h \in 1..Len(jobs) : jobs[h].id = id /\ ENABLED Fire(h)

\* C3: once /cancelschedule for an id has answered "cancelled", and until a /schedule for
\* that id is received after the answer, the durable row of the id is gone and no cron
\* callback for the id can start.
C3_CancelledStaysCancelled ==
    \A i \in 1..Len(cmds) :
        CancelStands(i) => /\ ~DbHasSchedule(dbSchedules, cmds[i].id)
                           /\ ~FireEnabled(cmds[i].id)

\* C4: when startup reconciliation is over and every command has been answered, every
\* durable row has a live cron job registered under its id.
C4_EveryRowHasLiveJob ==
    (startPc = "done" /\ AllAnswered)
    => \A r \in 1..Len(dbSchedules) :
          /\ scheduledJobs[dbSchedules[r].id] # 0
          /\ Live(jobs[scheduledJobs[dbSchedules[r].id]])

\* C5: when every command has been answered, every live cron job has a durable row
\* with its id.
C5_EveryLiveJobHasRow ==
    AllAnswered
    => \A h \in 1..Len(jobs) : Live(jobs[h]) => DbHasSchedule(dbSchedules, jobs[h].id)

\* C6: the step that resumes a /schedule handler after a failed saveScheduleToDb answers
\* with the failure reply, creates and starts no cron job, and leaves the in-memory
\* schedules and the registry as they are.
C6_FailedSaveStartsNothing ==
    [][\A i \in 1..Len(cmds) :
          ( /\ cmds[i].kind = "schedule" /\ cmds[i].pc = "cb" /\ ~cmds[i].res
            /\ cmds'[i].pc = "done" )
          => /\ cmds'[i].reply = "savefailed"
             /\ jobs' = jobs
             /\ scheduledJobs' = scheduledJobs
             /\ schedules' = schedules]_vars

\* a /schedule whose save failed has been answered while another schedule is live
C6_Witness ==
    \E i \in 1..Len(cmds) :
        /\ cmds[i].kind = "schedule" /\ cmds[i].reply = "savefailed"
        /\ ~ObjHas(schedules, cmds[i].id)
        /\ LiveJobs(cmds[i].id) = {}

\* the time of a row is one node-cron accepts
RowTimeOk(row) == row.hour \in 0..23 /\ row.minute \in 0..59

-----------------------------------------------------------------------------
(* Properties of the admin gate *)

\* the step belongs to the handler of a command whose requester is not an admin
StepOfNonAdmin ==
    \/ /\ cmds' # cmds
       /\ \A i \in 1..Len(cmds') :
             (i > Len(cmds) \/ cmds'[i] # cmds[i]) => ~isAdmin(cmds'[i].chatId)
    \/ /\ ruleCmds' # ruleCmds
       /\ \A i \in 1..Len(ruleCmds') :
             (i > Len(ruleCmds) \/ ruleCmds'[i] # ruleCmds[i]) => ~isAdmin(ruleCmds'[i].chatId)

\* C8: no step of a command sent by a requester who is not an admin changes the rules
\* table, the schedules table, the in-memory mirrors, the registry or the cron jobs.
\* Checked under SpecGate.
C8_NonAdminChangesNothing ==
    [][StepOfNonAdmin
       => UNCHANGED <<dbRules, rules, dbSchedules, schedules, scheduledJobs, jobs>>]_vars

\* C9: isAdmin(chatId) is true for every chatId when ADMIN_CHAT_IDS is empty, and
\* otherwise exactly when chatId is one of its elements. Checked under SpecAdmin.
C9_IsAdminPolicy ==
    probe.chatId # 0
    => probe.admin = (IF ADMIN_CHAT_IDS = <<>> THEN TRUE
                      ELSE probe.chatId \in {ADMIN_CHAT_IDS[i] : i \in 1..Len(ADMIN_CHAT_IDS)})

\* the gate was evaluated in open mode
C9_Witness ==
    probe.chatId # 0 /\ ADMIN_CHAT_IDS = <<>> /\ probe.admin

-----------------------------------------------------------------------------
(* Properties of the rule store, checked under SpecRules *)

\* every other rule command was answered before command i was received
RuleCmdAlone(i) ==
    \A j \in 1..Len(ruleCmds) : j # i => ruleCmds[j].pc = "done" /\ ruleCmds[j].at < i

OtherTriggerOccurs(keys, t, body) ==
    \E u \in keys : u # t /\ Includes(body, u)

\* C10: when an /addrule T R of an admin, not overlapping any other rule command, is
\* answered with the success reply, then in the state it leaves the rules table and the
\* in-memory rules hold exactly one entry for lower-case(T), with reply R, and every
\* text that contains T (in any letter case) is answered with R on Telegram and on
\* WhatsApp unless another trigger of the rule set, all stored earlier, occurs in it.
C10_AddRuleThenMatch ==
    [][\A i \in 1..Len(ruleCmds) :
          ( /\ ruleCmds[i].kind = "addrule" /\ ruleCmds[i].pc = "cb"
            /\ ruleCmds'[i].pc = "done" /\ ruleCmds'[i].out = "added"
            /\ isAdmin(ruleCmds[i].chatId)
            /\ RuleCmdAlone(i) )
          => LET t == ToLowerCase(ruleCmds[i].typed)
                 R == ruleCmds[i].reply
                 memKeys == {rules'[n].k : n \in 1..Len(rules')}
                 dbKeys == {dbRules'[n].trigger : n \in 1..Len(dbRules')}
             IN  /\ Cardinality({n \in 1..Len(dbRules') : dbRules'[n].trigger = t}) = 1
                 /\ DbRuleReply(dbRules', t) = R
                 /\ Cardinality({n \in 1..Len(rules') : rules'[n].k = t}) = 1
                 /\ ObjGet(rules', t) = R
                 /\ \A text \in Texts :
                       Includes(ToLowerCase(text), t)
                       => /\ \/ TelegramReply(rules', text) = R
                             \/ OtherTriggerOccurs(memKeys, t, ToLowerCase(text))
                          /\ \/ WhatsAppReply(dbRules', text) = R
                             \/ OtherTriggerOccurs(dbKeys, t, ToLowerCase(text))]_vars

\* the second command, /addrule "A" "r2", was answered after the first had added "1":
\* the text "a1" is answered with the reply of the earlier rule, the text "a" with r2
C10_Witness ==
    /\ Len(ruleCmds) = 2
    /\ ruleCmds[1].out = "added" /\ ruleCmds[1].trigger = <<"1">> /\ ruleCmds[1].at = 1
    /\ ruleCmds[2].out = "added" /\ ruleCmds[2].typed = <<"A">> /\ ruleCmds[2].reply = "r2"
    /\ ruleCmds[1].reply = "r1"
    /\ TelegramReply(rules, <<"a", "1">>) = "r1"
    /\ TelegramReply(rules, <<"A">>) = "r2"
    /\ WhatsAppReply(dbRules, <<"A">>) = "r2"

\* C11: when a /deleterule T of an admin, not overlapping any other rule command, is
\* answered with the success reply, the rules table and the in-memory rules hold no entry
\* for lower-case(T) in the state it leaves, and no text is answered because of T; when T
\* is absent from the table when the DELETE runs, the DELETE leaves the table as it is,
\* and with T absent from the in-memory rules too the answer is the not-found reply, with
\* the table and the in-memory rules unchanged.
C11_DeleteRuleRemoves ==
    [][\A i \in 1..Len(ruleCmds) :
          ( /\ ruleCmds[i].kind = "deleterule" /\ isAdmin(ruleCmds[i].chatId)
            /\ RuleCmdAlone(i) )
          => LET t == ToLowerCase(ruleCmds[i].typed)
             IN  /\ ( ruleCmds[i].pc = "cb" /\ ruleCmds'[i].pc = "done"
                      /\ ruleCmds'[i].out = "deleted" )
                    => /\ ~DbHasRule(dbRules', t)
                       /\ DbRuleReply(dbRules', t) = ""
                       /\ ~ObjHas(rules', t)
                       /\ \A u \in Triggers : u # t =>
                              (ObjHas(rules, u) <=> ObjHas(rules', u))
                 /\ ( ruleCmds[i].pc = "db" /\ ruleCmds'[i].pc = "cb"
                      /\ ~DbHasRule(dbRules, t) )
                    => dbRules' = dbRules /\ rules' = rules
                 /\ ( ruleCmds[i].pc = "cb" /\ ruleCmds'[i].pc = "done"
                      /\ ruleCmds[i].res = "absent" /\ ~ObjHas(rules, t) )
                    => /\ ruleCmds'[i].out = "notfound"
                       /\ dbRules' = dbRules /\ rules' = rules]_vars

\* /addrule "A" "r1" was answered, then /deleterule "A" was received and answered with
\* the success reply: "a" is gone from the table and from the in-memory rules
C11_Witness ==
    /\ Len(ruleCmds) = 2
    /\ ruleCmds[1].kind = "addrule" /\ ruleCmds[1].out = "added" /\ ruleCmds[1].at = 1
    /\ ruleCmds[1].typed = <<"A">>
    /\ ruleCmds[2].kind = "deleterule" /\ ruleCmds[2].out = "deleted"
    /\ ruleCmds[2].typed = <<"A">>
    /\ rulesPc = "done"
    /\ ~DbHasRule(dbRules, <<"a">>) /\ ~ObjHas(rules, <<"a">>)

-----------------------------------------------------------------------------
(* Properties of the matcher, checked under SpecMatch *)

ObjKeySet(o) == {o[n].k : n \in 1..Len(o)}

DbKeySet(db) == {db[n].trigger : n \in 1..Len(db)}

\* some trigger of the set occurs in the lower-cased text
TriggerOccurs(keys, text) == \E k \in keys : Includes(ToLowerCase(text), k)

\* message i is a Telegram text received in this step
TgReceived(i) == i > Len(inbox) /\ inbox'[i].chan = "tg"

\* this step is the rule lookup of WhatsApp message i, and the lookup read the table
WaLooked(i) ==
    /\ inbox[i].chan = "wa" /\ inbox[i].pc = "load" /\ inbox'[i].pc # "load"
    /\ inbox'[i].snap = loadRulesFromDB(dbRules)

\* C12: a Telegram text is answered if and only if its lower-cased form contains a trigger
\* of the in-memory rules; a WhatsApp message of an authorized sender, whose lookup read
\* the table, sets the reply timer if and only if its lower-cased body contains a trigger
\* of the table, and the timer sends a reply; a message for which no trigger fired is
\* never answered; two texts that differ in letter case only have the same outcome.
C12_ReplyIffTriggerOccurs ==
    [][/\ \A i \in 1..Len(inbox') :
             TgReceived(i)
             => /\ (inbox'[i].sent # <<>>) <=> TriggerOccurs(ObjKeySet(rules), inbox'[i].text)
                /\ \A t2 \in Texts :
                      ToLowerCase(t2) = ToLowerCase(inbox'[i].text)
                      => TelegramSends(rules, t2) = inbox'[i].fired
       /\ \A i \in 1..Len(inbox) :
             WaLooked(i)
             => /\ (inbox'[i].fired # <<>>) <=> TriggerOccurs(DbKeySet(dbRules), inbox[i].text)
                /\ \A t2 \in Texts :
                      ToLowerCase(t2) = ToLowerCase(inbox[i].text)
                      => RuleLoop(inbox'[i].snap, ToLowerCase(t2)) = inbox'[i].fired
       /\ \A i \in 1..Len(inbox) :
             (inbox[i].pc = "timer" /\ inbox'[i].pc = "done") => inbox'[i].sent # <<>>
       /\ \A i \in 1..Len(inbox') :
             inbox'[i].fired = <<>> => inbox'[i].sent = <<>>]_vars

\* the WhatsApp message "bA" of the authorized sender was answered with the reply of "a"
C12_Witness ==
    \E i \in 1..Len(inbox) :
        /\ inbox[i].chan = "wa" /\ inbox[i].text = <<"b", "A">>
        /\ inbox[i].pc = "done" /\ inbox[i].sent = <<"r1">>

\* the trigger of the first row of the table, in the order the rows were stored, that
\* occurs in body (<<>> : none)
RECURSIVE FirstStoredTrigger(_, _)
FirstStoredTrigger(db, body) ==
    IF db = <<>> THEN <<>>
    ELSE IF Includes(body, db[1].trigger) THEN db[1].trigger
    ELSE FirstStoredTrigger(Tail(db), body)

\* C13: every inbound message fires at most one rule and is sent at most one reply, and
\* the rule that fires is the first one, in the order the rules were stored in the
\* table, whose trigger occurs in the text (for Telegram: while the in-memory rules are
\* the ones loaded from the table, no rule command received).
C13_FirstStoredTriggerWins ==
    [][/\ \A i \in 1..Len(inbox') :
             Len(inbox'[i].fired) <= 1 /\ Len(inbox'[i].sent) <= 1
       /\ \A i \in 1..Len(inbox) :
             (WaLooked(i) /\ inbox'[i].fired # <<>>)
             => inbox'[i].fired[1].k = FirstStoredTrigger(dbRules, ToLowerCase(inbox[i].text))
       /\ \A i \in 1..Len(inbox') :
             (TgReceived(i) /\ ruleCmds = <<>> /\ inbox'[i].fired # <<>>)
             => inbox'[i].fired[1].k = FirstStoredTrigger(dbRules, ToLowerCase(inbox'[i].text))]_vars

-----------------------------------------------------------------------------
(* Properties of the allow-list, checked under SpecNumbers *)

\* the forms in which the one contact of the model (98, country code 91) is written:
\* normalized, with the WhatsApp suffix, bare, with a leading zero
ContactForms == {<<"9", "1", "9", "8">>, <<"9", "1", "9", "8">> \o CUS,
                 <<"9", "8">>, <<"0", "9", "8">>}

\* C14: in the state that the success reply of /addnumber X leaves, isAuthorizedNumber
\* is true for the normalized form of the contact X denotes and for its other forms:
\* with the @c.us suffix, without the country code, with a leading zero; X itself being
\* typed bare, with a leading zero or with the country code.
C14_AddedNumberAuthorizedInEveryForm ==
    [][\A i \in 1..Len(numCmds) :
          ( /\ numCmds[i].kind = "addnumber" /\ numCmds[i].pc = "cb"
            /\ numCmds'[i].pc = "done" /\ numCmds'[i].out = "added" )
          => \A f \in ContactForms : isAuthorizedNumber(f)']_vars

\* C15: in every reachable state the in-memory allow-list holds no number twice.
C15_NoDuplicateNumbers ==
    \A i, j \in 1..Len(authorizedNumbers) :
        authorizedNumbers[i] = authorizedNumbers[j] => i = j

\* message i is a WhatsApp message received in this step from a sender whose number is
\* not in the allow-list
WaReceivedFromStranger(i) ==
    /\ i > Len(inbox) /\ inbox'[i].chan = "wa"
    /\ ~ArrayIncludes(authorizedNumbers, DigitPrefix(inbox'[i].from))

\* C16: a WhatsApp message received from a sender whose number is not in the in-memory
\* allow-list is dropped at once, without a rule lookup and without a reply, and stays
\* so; a Telegram text is answered if and only if a trigger of the in-memory rules occurs
\* in it, whatever the allow-list holds.
C16_StrangersGetNoLookupNoReply ==
    [][/\ \A i \in 1..Len(inbox') :
             WaReceivedFromStranger(i)
             => inbox'[i].pc = "done" /\ ~inbox'[i].looked /\ inbox'[i].sent = <<>>
       /\ \A i \in 1..Len(inbox) :
             inbox[i].pc = "done" => inbox'[i] = inbox[i]
       /\ \A i \in 1..Len(inbox') :
             TgReceived(i)
             => ((inbox'[i].sent # <<>>) <=> TriggerOccurs(ObjKeySet(rules), inbox'[i].text))]_vars

\* a message of 98@c.us was dropped while 9198 is the one authorized number
C16_Witness ==
    /\ authorizedNumbers = <<NormalizeNumber(<<"9", "8">>)>>
    /\ \E i \in 1..Len(inbox) :
          /\ inbox[i].chan = "wa" /\ inbox[i].from = <<"9", "8">> \o CUS
          /\ inbox[i].pc = "done" /\ ~inbox[i].looked /\ inbox[i].sent = <<>>

-----------------------------------------------------------------------------
(* Properties of the rule commands, checked under SpecRules *)

\* C17: the INSERT OR REPLACE of an /editrule T R takes effect only on a table that holds
\* a row for T, so that it never adds a row; an /editrule that finds no row is answered
\* with the not-found reply and leaves the table and the in-memory rules as they are.
C17_EditRuleNeverCreates ==
    [][\A i \in 1..Len(ruleCmds) :
          ruleCmds[i].kind = "editrule"
          => /\ ( ruleCmds[i].pc = "db" /\ ruleCmds'[i].pc = "cb" /\ ruleCmds'[i].res = "ok" )
                => DbHasRule(dbRules, ruleCmds[i].trigger)
             /\ ( ruleCmds[i].pc = "got" /\ ruleCmds'[i].pc = "done" )
                => /\ ruleCmds'[i].out = "notfound"
                   /\ dbRules' = dbRules /\ rules' = rules]_vars

\* the step is taken by rule command i
StepOfRuleCmd(i) == i > Len(ruleCmds) \/ ruleCmds'[i] # ruleCmds[i]

\* C18: a step of an /addrule, /editrule or /deleterule command changes the in-memory
\* rules only if it is the callback of the command's write and the write took effect on
\* the table: when the write failed the in-memory rules stay as they are, and they never
\* change before the callback of the write.
C18_MemoryFollowsConfirmedWrite ==
    [][\A i \in 1..Len(ruleCmds') :
          (StepOfRuleCmd(i) /\ rules' # rules)
          => /\ i <= Len(ruleCmds)
             /\ ruleCmds[i].pc = "cb" /\ ruleCmds'[i].pc = "done"
             /\ ruleCmds[i].res \in {"ok", "removed", "absent"}]_vars

\* the write of an /addrule has failed and the command was answered, with the in-memory
\* rules empty as before, after the startup load of an empty table
C18_Witness ==
    /\ rulesPc = "done" /\ rules = <<>> /\ dbRules = <<>>
    /\ \E i \in 1..Len(ruleCmds) :
          /\ ruleCmds[i].kind = "addrule" /\ ruleCmds[i].res = "err"
          /\ ruleCmds[i].pc = "done" /\ ruleCmds[i].out = "savefailed"

\* C19: a rule command that was answered after the table returned an error to one of its
\* statements was answered with the failure reply, not with the success reply and not
\* with the not-found reply.
C19_StoreErrorGetsFailureReply ==
    \A i \in 1..Len(ruleCmds) :
        (ruleCmds[i].pc = "done" /\ ruleCmds[i].res = "err") => ruleCmds[i].out = "savefailed"

-----------------------------------------------------------------------------
(* Properties of one message against concurrent rule commands, checked under SpecMatch *)

\* entry e is an entry of the object o
IsEntryOf(e, o) == ObjHas(o, e.k) /\ ObjGet(o, e.k) = e.v

\* C20: the entry that fires for a WhatsApp message is an entry of the object built from
\* one read of the table, that entry is kept while the timer runs, and the body sent
\* after the delay is the reply of that entry, whatever rule commands take effect in
\* between; the entry that fires for a Telegram text is an entry of the in-memory rules
\* of the state in which the text is received, and the body sent is its reply.
C20_ReplyFromOneState ==
    [][/\ \A i \in 1..Len(inbox) :
             (inbox[i].chan = "wa" /\ inbox[i].pc = "load" /\ inbox'[i].pc # "load")
             => /\ inbox'[i].snap \in {loadRulesFromDB(dbRules), <<>>}
                /\ \A n \in 1..Len(inbox'[i].fired) : IsEntryOf(inbox'[i].fired[n], inbox'[i].snap)
       /\ \A i \in 1..Len(inbox) :
             inbox[i].pc = "timer"
             => /\ inbox'[i].fired = inbox[i].fired
                /\ inbox'[i].pc = "done" => inbox'[i].sent = <<inbox[i].fired[1].v>>
       /\ \A i \in 1..Len(inbox') :
             TgReceived(i)
             => /\ \A n \in 1..Len(inbox'[i].fired) : IsEntryOf(inbox'[i].fired[n], rules)
                /\ inbox'[i].sent = [n \in 1..Len(inbox'[i].fired) |-> inbox'[i].fired[n].v]]_vars

\* the WhatsApp message "a" fired the rule a -> r1, /editrule "a" "r2" was answered during
\* the delay, and the body sent is r1
C20_Witness ==
    /\ DbRuleReply(dbRules, <<"a">>) = "r2"
    /\ ObjHas(rules, <<"a">>) /\ ObjGet(rules, <<"a">>) = "r2"
    /\ \E c \in 1..Len(ruleCmds) : ruleCmds[c].kind = "editrule" /\ ruleCmds[c].out = "updated"
    /\ \E i \in 1..Len(inbox) :
          /\ inbox[i].chan = "wa" /\ inbox[i].text = <<"a">> /\ inbox[i].pc = "done"
          /\ inbox[i].fired = <<[k |-> <<"a">>, v |-> "r1"]>>
          /\ inbox[i].sent = <<"r1">>

\* the outcomes of a cron callback that ends without a completed send
FireFailures == {"noclient", "notready", "unregistered", "resolvefailed", "sendfailed"}

\* C21: every run of a cron callback calls client.sendMessage at most once; a run that
\* ends because the client is missing or not ready, the destination does not resolve, or
\* the send throws, has made no call (one call, the throwing one, in the last case),
\* raises nothing out of the callback, takes no further step (no retry), and no step of a
\* callback changes the set of live cron jobs: the job of the run stays live.
C21_FireSendsAtMostOnce ==
    [][/\ \A f \in 1..Len(fires') :
             /\ fires'[f].attempts <= 1
             /\ ~fires'[f].raised
             /\ Live(jobs'[fires'[f].job])
             /\ fires'[f].pc = "done" =>
                   /\ fires'[f].outcome \in FireFailures \cup {"sent"}
                   /\ fires'[f].attempts = IF fires'[f].outcome \in {"sendfailed", "sent"}
                                           THEN 1 ELSE 0
       /\ \A f \in 1..Len(fires) : fires[f].pc = "done" => fires'[f] = fires[f]
       /\ fires' # fires => jobs' = jobs /\ scheduledJobs' = scheduledJobs]_vars

\* the same job fired twice: the first callback ended with a send that threw, the second
\* delivered, and the job is live
C21_Witness ==
    /\ Len(fires) = 2
    /\ fires[1].job = fires[2].job
    /\ fires[1].pc = "done" /\ fires[1].outcome = "sendfailed" /\ fires[1].attempts = 1
    /\ fires[2].pc = "done" /\ fires[2].outcome = "sent"
    /\ Live(jobs[fires[1].job])

\* the error replies of /send
SendErrors == {"notready", "unregistered", "failed"}

\* C26: a /send command whose handler has ended has made exactly one reply to the
\* requester, the success reply exactly when client.sendMessage completed and an error
\* reply otherwise (client missing or not ready, number not registered, send thrown), and
\* with an error reply no WhatsApp message was delivered; a handler that has not ended has
\* not replied yet, and a reply once made is never followed by another.
C26_SendRepliesOnce ==
    [][/\ \A i \in 1..Len(sends') :
             /\ Len(sends'[i].replies) <= 1
             /\ sends'[i].attempts <= 1
             /\ sends'[i].pc # "done" => sends'[i].replies = <<>> /\ ~sends'[i].delivered
             /\ sends'[i].pc = "done" =>
                   /\ Len(sends'[i].replies) = 1
                   /\ sends'[i].replies[1] \in SendErrors \cup {"sent"}
                   /\ sends'[i].replies[1] = "sent" <=> sends'[i].delivered
                   /\ sends'[i].delivered => sends'[i].attempts = 1
       /\ \A i \in 1..Len(sends) : sends[i].pc = "done" => sends'[i] = sends[i]]_vars

\* one /send was answered with the success reply after its message was delivered, another
\* with the not-registered reply and no call of client.sendMessage
C26_Witness ==
    /\ Len(sends) = 2
    /\ sends[1].pc = "done" /\ sends[1].replies = <<"sent">> /\ sends[1].delivered
    /\ sends[2].pc = "done" /\ sends[2].replies = <<"unregistered">>
    /\ sends[2].attempts = 0 /\ ~sends[2].delivered

\* C27: when opening the durable store or creating one of its tables has failed, the
\* process has stopped, and no administrative command and no inbound message was handled
\* before it stopped.
C27_FailedStartupStopsFirst ==
    boot.failed => /\ boot.pc = "exited"
                   /\ sends = <<>>
                   /\ inbox = <<>>

\* the step is the handler of a /cancelschedule command up to its first await or its end
CancelReceived ==
    /\ Len(cmds') = Len(cmds) + 1
    /\ cmds'[Len(cmds')].kind = "cancel"

\* C22: a /cancelschedule command is answered not-found exactly when the schedules table
\* holds no row with the computed id, and then the table, the in-memory schedules and the
\* cron jobs are as before; when the table holds such a row (also before the startup
\* reconciliation has loaded it) the command goes on to delete it.
C22_NotFoundIffNoDurableRecord ==
    [][CancelReceived =>
          LET c == cmds'[Len(cmds')]
          IN  /\ c.reply = "notfound" <=> ~DbHasSchedule(dbSchedules, c.id)
              /\ c.reply = "notfound" =>
                    /\ dbSchedules' = dbSchedules
                    /\ schedules' = schedules
                    /\ jobs' = jobs
                    /\ scheduledJobs' = scheduledJobs
              /\ DbHasSchedule(dbSchedules, c.id) => c.pc = "db"]_vars

\* the step is the handler of a /schedule command up to `await saveScheduleToDb`
ScheduleReceived ==
    /\ Len(cmds') = Len(cmds) + 1
    /\ cmds'[Len(cmds')].kind = "schedule"

\* C23: every row of the schedules table has hour in 0..23 and minute in 0..59, and a
\* /schedule command whose HH:MM is outside these ranges changes neither the table, the
\* in-memory schedules nor the cron jobs, is never answered as scheduled and ends with an
\* error reply.
C23_OnlyValidTimesStored ==
    [][/\ \A r \in 1..Len(dbSchedules') :
             dbSchedules'[r].hour \in 0..23 /\ dbSchedules'[r].minute \in 0..59
       /\ \A i \in 1..Len(cmds') :
             (cmds'[i].kind = "schedule" /\ ~ValidCron(cmds'[i].hour, cmds'[i].minute))
             => /\ cmds'[i].reply # "scheduled"
                /\ cmds'[i].pc = "done" => cmds'[i].reply = "invalid"
                /\ (i > Len(cmds) \/ cmds'[i] # cmds[i])
                   => /\ dbSchedules' = dbSchedules
                      /\ schedules' = schedules
                      /\ jobs' = jobs
                      /\ scheduledJobs' = scheduledJobs]_vars

\* the /cancelschedule command j has the number and the HH:MM of the /schedule command i
SameArguments(i, j) ==
    /\ cmds'[i].kind = "schedule" /\ cmds'[j].kind = "cancel"
    /\ cmds'[i].number = cmds'[j].number
    /\ cmds'[i].hour = cmds'[j].hour /\ cmds'[i].minute = cmds'[j].minute

\* C24: /schedule and /cancelschedule compute the same id for the same number and HH:MM,
\* the normalized number, "_", HH, ":" and MM (98 at 08:00 gives "9198_08:00"), so a
\* cancel with the arguments of an earlier /schedule forgets the handle stored under that
\* schedule's id, stops the job it named, and its DELETE leaves no row with that id.
C24_CancelAddressesSchedule ==
    [][/\ \A n \in Numbers, t \in Times :
             /\ CancelId(NormalizeNumber(n), t.hour, t.minute)
                  = ScheduleId(NormalizeNumber(n), t.hour, t.minute)
             /\ ScheduleId(NormalizeNumber(n), t.hour, t.minute)
                  = NormalizeNumber(n) \o <<"_">> \o t.hour \o <<":">> \o t.minute
       /\ ScheduleId(NormalizeNumber(<<"9", "8">>), <<"0", "8">>, <<"0", "0">>)
            = <<"9", "1", "9", "8", "_", "0", "8", ":", "0", "0">>
       /\ \A i \in 1..Len(cmds'), j \in 1..Len(cmds') :
             SameArguments(i, j)
             => /\ cmds'[j].id = cmds'[i].id
                /\ j > Len(cmds)
                   => /\ scheduledJobs'[cmds'[i].id] = 0
                      /\ scheduledJobs[cmds'[i].id] # 0
                         => ~Live(jobs'[scheduledJobs[cmds'[i].id]])
                /\ (j <= Len(cmds) /\ cmds[j].pc = "db" /\ cmds'[j].pc = "cb"
                    /\ dbSchedules' # dbSchedules)
                   => ~DbHasSchedule(dbSchedules', cmds'[i].id)]_vars

\* /schedule 98 "m" 08:00 was answered as scheduled, the later /cancelschedule 98 08:00
\* as cancelled, and the row, the in-memory schedule and the job handle of 9198_08:00 are
\* gone
C24_Witness ==
    /\ Len(cmds) = 2
    /\ cmds[1].kind = "schedule" /\ cmds[1].reply = "scheduled"
    /\ cmds[1].id = <<"9", "1", "9", "8", "_", "0", "8", ":", "0", "0">>
    /\ cmds[2].kind = "cancel" /\ cmds[2].reply = "cancelled"
    /\ cmds[2].id = cmds[1].id
    /\ ~DbHasSchedule(dbSchedules, cmds[1].id)
    /\ ~ObjHas(schedules, cmds[1].id)
    /\ scheduledJobs[cmds[1].id] = 0

\* the trigger t is stored as the code normalizes it
NormalTrigger(t) == t # <<>> /\ t = ToLowerCase(t)

\* the step is the receipt of an /addrule or /editrule whose quoted trigger is empty
EmptyTriggerReceived ==
    /\ Len(ruleCmds') = Len(ruleCmds) + 1
    /\ ruleCmds'[Len(ruleCmds')].kind \in {"addrule", "editrule"}
    /\ ruleCmds'[Len(ruleCmds')].typed = <<>>

\* C25: every trigger of the rules table and of the in-memory rules is non-empty and
\* equal to its lower-cased form, and an /addrule or /editrule with an empty trigger is
\* over when it is received, with no database call, the table and the in-memory rules as
\* before.
C25_TriggersNormalized ==
    [][/\ \A r \in 1..Len(dbRules') : NormalTrigger(dbRules'[r].trigger)
       /\ \A r \in 1..Len(rules') : NormalTrigger(rules'[r].k)
       /\ EmptyTriggerReceived
          => /\ ruleCmds'[Len(ruleCmds')].pc = "done"
             /\ dbRules' = dbRules
             /\ rules' = rules]_vars

\* /addrule "" "r1" was received and stored nothing, /addrule "A" "r1" was answered and
\* its rule is stored under "a" in the table and in memory
C25_Witness ==
    /\ Len(ruleCmds) = 2
    /\ ruleCmds[1].kind = "addrule" /\ ruleCmds[1].typed = <<>> /\ ruleCmds[1].pc = "done"
    /\ ruleCmds[2].kind = "addrule" /\ ruleCmds[2].typed = <<"A">> /\ ruleCmds[2].out = "added"
    /\ DbHasRule(dbRules, <<"a">>) /\ ObjHas(rules, <<"a">>)
    /\ ~DbHasRule(dbRules, <<>>) /\ ~ObjHas(rules, <<>>)

\* the trigger-reply pairs of the in-memory rules and of the rules table
RulePairs == {<<rules[n].k, rules[n].v>> : n \in 1..Len(rules)}
DbRulePairs == {<<dbRules[n].trigger, dbRules[n].reply>> : n \in 1..Len(dbRules)}

\* no /addrule, /editrule or /deleterule is between its receipt and its answer
NoRuleCmdInFlight == \A i \in 1..Len(ruleCmds) : ruleCmds[i].pc = "done"

\* C28: whenever the startup load of the rules has completed and no rule command is in
\* flight, the in-memory rules hold exactly the trigger-reply pairs of the rules table,
\* whether or not a rule command completed while the startup load was in flight.
C28_RulesMirrorTable ==
    (rulesPc = "done" /\ NoRuleCmdInFlight) => RulePairs = DbRulePairs

\* the step is the code after the await of /removenumber command i, answering `removed`
RemovedReplied(i) ==
    /\ numCmds[i].kind = "removenumber" /\ numCmds[i].pc = "cb"
    /\ numCmds'[i].pc = "done" /\ numCmds'[i].out = "removed"

\* C29: when /removenumber X answers that X was removed, X is not in the in-memory
\* allow-list any more and every other number that was in the list is still in it,
\* whatever other /addnumber and /removenumber commands were in flight during the DELETE.
C29_RemoveTakesOutOnlyX ==
    [][\A i \in 1..Len(numCmds) :
          RemovedReplied(i)
          => /\ ~ArrayIncludes(authorizedNumbers', numCmds[i].number)
             /\ \A n \in 1..Len(authorizedNumbers) :
                   authorizedNumbers[n] # numCmds[i].number
                   => ArrayIncludes(authorizedNumbers', authorizedNumbers[n])]_vars

\* no /addnumber or /removenumber is between its receipt and its answer
NoNumCmdInFlight == \A i \in 1..Len(numCmds) : numCmds[i].pc = "done"

\* C30: whenever the startup load of the allow-list has completed and no /addnumber or
\* /removenumber command is in flight, the in-memory authorizedNumbers hold exactly the
\* numbers of the authorized_numbers table, whether or not a command ran before or
\* during the startup load.
C30_NumbersMirrorTable ==
    (numsPc = "done" /\ NoNumCmdInFlight)
    => {authorizedNumbers[n] : n \in 1..Len(authorizedNumbers)}
         = {dbNumbers[n] : n \in 1..Len(dbNumbers)}

-----------------------------------------------------------------------------
(* Claims C31..C34 *)

\* C31: when the in-memory rules and the rules table hold the same trigger-reply pairs
\* (startup load over, no rule command in flight), the loop of the Telegram handler over
\* the in-memory rules and the loop of the WhatsApp handler over the rows loaded from the
\* table fire the same rule for every text, whatever adds, overwrites and deletes
\* produced the pairs.
C31_BothChannelsSelectSameRule ==
    (rulesPc = "done" /\ NoRuleCmdInFlight /\ RulePairs = DbRulePairs)
    => \A text \in Texts :
          RuleLoop(rules, ToLowerCase(text))
            = RuleLoop(loadRulesFromDB(dbRules), ToLowerCase(text))

\* C32: at any time at most one Client instance has been created and not destroyed, and
\* a call of initializeWhatsAppClient that goes on while an earlier instance is
\* initializing or ready creates no instance, in whatever order the timers of
\* auth_failure, of disconnected and of the retries fire.
C32_AtMostOneLiveClient ==
    [][/\ Cardinality({c \in 1..Len(clients') : clients'[c].state # "destroyed"}) <= 1
       /\ LiveClients # {} => Len(clients') = Len(clients)]_vars

\* the step sets isClientInitialized
FlagSet == ~isClientInitialized /\ isClientInitialized'

\* C33: one call of initializeWhatsAppClient calls client.initialize at most six times,
\* the first attempt and five retries, and then stops; it stops at the first attempt
\* that resolves; and isClientInitialized becomes true only in the step in which an
\* attempt resolves or a ready event is handled.
C33_AtMostSixAttempts ==
    [][/\ \A k \in 1..Len(inits') :
             /\ inits'[k].attempts <= MaxRetries + 1
             /\ inits'[k].attempts = IF inits'[k].pc \in {"skipped", "load"} THEN 0
                                     ELSE inits'[k].retryCount + 1
       /\ \A k \in 1..Len(inits) :
             /\ inits[k].pc \in {"done", "skipped"} => inits'[k] = inits[k]
             /\ (inits[k].pc = "attempt" /\ inits'[k].pc = "timer")
                => inits[k].attempts <= MaxRetries
             /\ (inits[k].pc = "attempt" /\ inits'[k].ok) => inits'[k].pc = "done"
       /\ FlagSet
          => \/ \E k \in 1..Len(inits) :
                   inits[k].pc = "attempt" /\ inits'[k].pc = "done" /\ inits'[k].ok
             \/ \E c \in 1..Len(clients) :
                   clients[c].state # "ready" /\ clients'[c].state = "ready"]_vars

\* one call gave up after six rejected attempts, a later call stopped at its first
\* attempt, which resolved
C33_Witness ==
    /\ Len(inits) >= 2
    /\ inits[1].pc = "done" /\ ~inits[1].ok /\ inits[1].attempts = 6
    /\ \E k \in 2..Len(inits) : inits[k].pc = "done" /\ inits[k].ok /\ inits[k].attempts = 1
    /\ isClientInitialized

\* C34: the WhatsApp handler looks up no rule and sends nothing for a message that is a
\* status broadcast or that the bot's own account sent, whatever the rules table and the
\* allow-list hold, and the Telegram handler fires no rule and sends nothing for a
\* message without text or whose text starts with "/".
C34_FilteredMessagesGetNoReply ==
    \A i \in 1..Len(inbox) :
       /\ (inbox[i].chan = "wa" /\ (inbox[i].isStatus \/ inbox[i].fromMe))
          => /\ inbox[i].pc = "done" /\ ~inbox[i].looked
             /\ inbox[i].fired = <<>> /\ inbox[i].sent = <<>>
       /\ (inbox[i].chan = "tg" /\ (inbox[i].text = <<>> \/ StartsWith(inbox[i].text, "/")))
          => inbox[i].fired = <<>> /\ inbox[i].sent = <<>>

\* the rule a -> r1 is stored and the sender is in the allow-list: a WhatsApp message
\* "a" that the bot's own account sent and the Telegram text "/a" were handled, and
\* nothing was sent for either
C34_Witness ==
    /\ DbHasRule(dbRules, <<"a">>) /\ ObjHas(rules, <<"a">>)
    /\ Len(inbox) = 2
    /\ inbox[1].chan = "wa" /\ inbox[1].fromMe /\ ~inbox[1].isStatus
    /\ inbox[1].text = <<"a">> /\ isAuthorizedNumber(inbox[1].from)
    /\ inbox[1].pc = "done" /\ inbox[1].sent = <<>>
    /\ inbox[2].chan = "tg" /\ inbox[2].text = <<"/", "a">> /\ inbox[2].sent = <<>>

====
